---- MODULE Spec2Model ----
(***************************************************************************)
(* Navigation retry orchestrator of agent-connect: the explicit path       *)
(* (GotoRunner.goto), the event-driven path (EventRunner, in its two       *)
(* variants) and the upstream-switchable dynamic proxy they share.         *)
(*                                                                         *)
(* JavaScript runs the handlers on one thread; an async function runs      *)
(* without interruption from one await to the next.  Every action below is *)
(* one such run: the code from the resumption of an await (or from the     *)
(* call) up to the next await, the call it awaits included.                *)
(***************************************************************************)
EXTENDS Integers, Sequences, FiniteSets, TLC

\* ------------------------------------------------------------------ bounds
\* maxRetries is drawn from 0..MaxRetriesBound
MaxRetriesBound == 2
\* number of goto calls that may be started, and may overlap, on one session
MaxCalls == 2
\* number of times EventRunner.listen is called on the session
MaxListens == 2
\* number of requestfailed notifications the pages emit
MaxNotifications == 2
\* length of a retryOn list
MaxPatterns == 2
\* connections the local proxy prepares
MaxConnections == 2

\* ------------------------------------------------------------ the universe
Pages    == {"p1", "p2"}
Contexts == {"s1"}
Proxies  == {"d1", "d2"}
Calls    == 1..MaxCalls

\* page.context()
PageContext(p) == "s1"

\* Texts are sequences of symbols; "T" stands for the word Timeout, "N" for
\* NonRetryable, "E" for the default name of an Error, "O" for the text
\* "[object Object]", "u" for the text "undefined".
EmptyText == << >>

\* String.prototype.includes
Includes(text, pat) ==
  \E i \in 0..(Len(text) - Len(pat)) : SubSeq(text, i + 1, i + Len(pat)) = pat

\* -------------------------------------------------- values a navigation throws
\* kind: "Error" (an Error instance), "string", "object" (a plain object),
\* "undefined".  nav is the identity of the value: the ordinal of the
\* navigation attempt that threw it, 0 for a value made elsewhere.
Thrown(kind, hasMessage, message, code, name, text) ==
  [kind |-> kind, hasMessage |-> hasMessage, message |-> message,
   code |-> code, name |-> name, text |-> text, nav |-> 0]

\* Object.assign(new Error("Timeout"), { code: "Timeout" })
ErrTimeout   == Thrown("Error", TRUE, <<"T">>, <<"T">>, <<"E">>, EmptyText)
\* new Error("NonRetryable")
ErrFatal     == Thrown("Error", TRUE, <<"N">>, EmptyText, <<"E">>, EmptyText)
\* throw "Timeout"
StrTimeout   == Thrown("string", FALSE, EmptyText, EmptyText, EmptyText, <<"T">>)
\* throw { code: "NonRetryable" }
ObjFatal     == Thrown("object", FALSE, EmptyText, <<"N">>, EmptyText, EmptyText)
\* throw { code: "Timeout" }
ObjTimeout   == Thrown("object", FALSE, EmptyText, <<"T">>, EmptyText, EmptyText)
\* throw undefined
ThrownUndefined == Thrown("undefined", FALSE, EmptyText, EmptyText, EmptyText, EmptyText)

Failures == {ErrTimeout, ErrFatal, StrTimeout, ObjFatal, ObjTimeout, ThrownUndefined}

\* String(v)
StringOf(v) ==
  CASE v.kind = "string"    -> v.text
    [] v.kind = "undefined" -> <<"u">>
    [] v.kind = "object"    -> <<"O">>
    [] OTHER                -> v.name \o <<":">> \o v.message

\* !v
Falsy(v) == v.kind = "undefined" \/ (v.kind = "string" /\ v.text = EmptyText)

\* v instanceof Error
InstanceOfError(v) == v.kind = "Error"

\* new Error(message): a fresh object, thrown by no navigation
NewError(message) == Thrown("Error", TRUE, message, EmptyText, <<"E">>, EmptyText)

\* new AluviaErrorCtor(message, AluviaErrorCode.ProxyFetchFailed)
ProxyFetchFailed == Thrown("Error", TRUE, <<"F">>, <<"PF">>, <<"A">>, EmptyText)

\* what a throwing onRetry / onProxyLoaded callback throws
CallbackError == Thrown("Error", TRUE, <<"C">>, EmptyText, <<"E">>, EmptyText)

\* new AluviaError("Missing ALUVIA_API_KEY environment variable.", NoApiKey)
MissingApiKey == Thrown("Error", TRUE, <<"K">>, <<"NK">>, <<"A">>, EmptyText)

\* what a failing proxy provider rejects with
ProviderError == Thrown("Error", TRUE, <<"P">>, EmptyText, <<"E">>, EmptyText)

\* --------------------------------------------------------- failure classifier
\* A retry pattern: a string (substring containment) or a RegExp (test); the
\* regular expressions of the model are literals, which test by search.
StringPattern(t) == [regex |-> FALSE, text |-> t]
RegExpPattern(t) == [regex |-> TRUE, text |-> t]

PatternMatches(p, text) == Includes(text, p.text)

\* err.message ?? err ?? ""  , then String(...)
MessageOf(err) ==
  IF err.hasMessage THEN err.message
  ELSE IF err.kind = "undefined" THEN EmptyText
  ELSE StringOf(err)

GotoIsRetryableMutant(patterns, err) == ~Falsy(err)

\* compileRetryable of the goto runner
GotoIsRetryable(patterns, err) ==
  /\ ~Falsy(err)
  /\ \E i \in 1..Len(patterns) :
       \/ PatternMatches(patterns[i], MessageOf(err))
       \/ PatternMatches(patterns[i], err.code)
       \/ PatternMatches(patterns[i], err.name)

\* retryOn: ["Timeout"]
RetryOn == << StringPattern(<<"T">>) >>

\* ------------------------------------------------------------ credentials
\* ProxySettings; the dynamic proxy's "no upstream" is NullUpstream.
NullUpstream == [server |-> "null", username |-> 0]
Credential(n) == [server |-> "proxy", username |-> n]

\* ------------------------------------------------------------------- state
VARIABLES
  maxRetries,      \* options.maxRetries
  backoffMs,       \* options.backoffMs
  providerKind,    \* "rotating": a new username per get(); "fixed": always the same;
                   \* "builtinNoKey": no proxyProvider and no ALUVIA_API_KEY
  providerCalls,   \* number of proxyProvider.get() calls so far
  calls,           \* the goto calls: position, locals and what each has done
  upstream,        \* DynamicProxy.upstream of each handle
  closeLog,        \* per handle: who invoked close(), in order
  CONTEXT_LISTENER_ATTACHED,  \* the WeakSet of the goto runner
  closeListeners,  \* per context: the handles its "close" listeners close
  contextClosed,   \* per context: close has been emitted
  variant,         \* which EventRunner source is loaded: "notification" or "wrapping"
  contextPages,    \* context.pages()
  pageClosed,      \* page.isClosed()
  pages,           \* EventRunner.pages
  pageListeners,   \* number of "page" listeners the runner has put on the context
  requestFailedListeners,  \* per page: number of "requestfailed" listeners of the runner
  gotoWrappers,    \* per page: number of patchGoto wrappers around page.goto
  runningRetries,  \* EventRunner.runningRetries
  acts,            \* the activations of the requestfailed handler that went past its guards
  notified,        \* number of requestfailed notifications emitted so far
  lastNotification, \* the latest of them
  classification,  \* a pattern list, a failure and what isRetryable made of them
  lastSet,         \* per handle: the argument of the latest setUpstream call, if any
  server,          \* per handle: the proxy server listens; a close() has raised
  connections,     \* per handle: what prepareRequestFunction returned, call by call
  snapshot,        \* the array the latest getTrackedPages() call returned
  listener         \* agentConnectListener: the emitter of each context, the pages
                   \* it is attached to, what they reported and what it emitted

vars == <<maxRetries, backoffMs, providerKind, providerCalls, calls, upstream,
          closeLog, CONTEXT_LISTENER_ATTACHED, closeListeners, contextClosed,
          variant, contextPages, pageClosed, pages, pageListeners,
          requestFailedListeners, gotoWrappers, runningRetries, acts, notified,
          lastNotification, classification, lastSet, server, connections, snapshot,
          listener>>

\* what no step of a runner changes
runnerConfigVars == <<maxRetries, backoffMs, providerKind, variant, classification,
                      connections, snapshot>>
configVars == <<runnerConfigVars, listener>>
upstreamVars == <<upstream, lastSet>>
closeVars == <<closeLog, server>>
contextVars == <<CONTEXT_LISTENER_ATTACHED, closeListeners, contextClosed>>
pageVars == <<contextPages, pageClosed>>
trackingVars == <<pages, pageListeners, requestFailedListeners, gotoWrappers>>
retryVars == <<runningRetries, acts, notified, lastNotification>>
runnerVars == <<pageVars, trackingVars, retryVars>>

\* the EventRunner of src/unnamed/part_003 reacts to notifications only; the one
\* of src/src/event-runner.ts also wraps page.goto
Variants == {"notification", "wrapping"}

\* opts.dynamicProxy of the EventRunner
RunnerProxy == "d1"

NoRequest == [page |-> "none", resourceType |-> "none", errorText |-> EmptyText,
              url |-> "none", inFlight |-> FALSE, closed |-> FALSE]

\* backoffMs: none, or the default of the package
BackoffChoices == {0, 300}
\* Math.random() * 100 lies in [0, 100)
Jitters == {0, 99}

Pending == [state |-> "pending", page |-> "none", err |-> ThrownUndefined]

IdleCall ==
  [pc |-> "idle", page |-> "none", proxy |-> "none", attempt |-> 0,
   lastErr |-> ThrownUndefined, cred |-> NullUpstream, log |-> << >>,
   result |-> Pending]

\* getTrackedPages has not been called
NoSnapshot == [taken |-> FALSE, array |-> << >>, returned |-> << >>, open |-> {}]

\* setUpstream has not been called on the handle
NeverSet == [server |-> "never", username |-> 0]

\* no classifier has been compiled apart from the runner's own
NoClassification ==
  [path |-> "none", patterns |-> << >>, failure |-> ThrownUndefined,
   asked |-> FALSE, result |-> FALSE]

\* the state after construction, the options drawn from the given sets, but
\* for the classifier under examination
InitRunner(retries, backoffs, providers, variants, open) ==
  /\ maxRetries \in retries
  /\ backoffMs \in backoffs
  /\ providerKind \in providers
  /\ variant \in variants
  /\ contextPages = open
  /\ pageClosed = [p \in Pages |-> FALSE]
  /\ pages = << >>
  /\ pageListeners = 0
  /\ requestFailedListeners = [p \in Pages |-> 0]
  /\ gotoWrappers = [p \in Pages |-> 0]
  /\ runningRetries = {}
  /\ acts = << >>
  /\ notified = 0
  /\ lastNotification = NoRequest
  /\ providerCalls = 0
  /\ calls = [c \in Calls |-> IdleCall]
  /\ upstream = [d \in Proxies |-> NullUpstream]
  /\ closeLog = [d \in Proxies |-> << >>]
  /\ lastSet = [d \in Proxies |-> NeverSet]
  /\ server = [d \in Proxies |-> [listening |-> TRUE, raised |-> FALSE]]
  /\ connections = [d \in Proxies |-> << >>]
  /\ snapshot = NoSnapshot
  /\ CONTEXT_LISTENER_ATTACHED = {}
  /\ closeListeners = [s \in Contexts |-> << >>]
  /\ contextClosed = [s \in Contexts |-> FALSE]

\* the two sources of the listener: part_004 listens to requestfailed,
\* part_005 to domcontentloaded
ListenerSources == {"part_004", "part_005"}

\* agentConnectListener has not been called
NoListener(src) ==
  [source |-> src,
   emitters |-> [s \in Contexts |-> [created |-> FALSE, errorOn |-> << >>]],
   attached |-> {},
   received |-> << >>,
   emitted |-> << >>]

InitWith(retries, backoffs, providers, variants, open) ==
  /\ InitRunner(retries, backoffs, providers, variants, open)
  /\ classification = NoClassification
  /\ listener = NoListener("part_004")

Init == InitWith(0..MaxRetriesBound, BackoffChoices, {"rotating", "fixed"},
                 {"notification"}, <<"p1", "p2">>)

\* the elements of a sequence
Range(seq) == {seq[i] : i \in 1..Len(seq)}

\* ---------------------------------------------------------- log of a call
\* What a call has done and met, in order; the claims read it, the code does not.
Events(log, ev) == SelectSeq(log, LAMBDA e : e.ev = ev)
Count(log, ev) == Len(Events(log, ev))

NavEvent(p, up)      == [ev |-> "nav", page |-> p, upstream |-> up]
NavOkEvent           == [ev |-> "navOk"]
NavFailedEvent(err)  == [ev |-> "navFailed", err |-> err]
GetEvent             == [ev |-> "get"]
GetFailedEvent       == [ev |-> "getFailed"]
LoadedThrewEvent     == [ev |-> "onProxyLoadedThrew"]
OnRetryThrewEvent    == [ev |-> "onRetryThrew"]
LoadedEvent(cred)    == [ev |-> "onProxyLoaded", cred |-> cred]
SetUpstreamEvent(cred) == [ev |-> "setUpstream", cred |-> cred]
BackoffEvent(delay)  == [ev |-> "backoff", delay |-> delay]
OnRetryEvent(a, m, e) == [ev |-> "onRetry", attempt |-> a, maxRetries |-> m, lastErr |-> e]

\* --------------------------------------------------------- backoff scheduler
\* Math.pow(2, n)
Pow2(n) == IF n = 0 THEN 1 ELSE IF n = 1 THEN 2 ELSE IF n = 2 THEN 4 ELSE 8

backoffDelayMutant(base, attempt, jitter) == base * Pow2(attempt + 1) + jitter

\* backoffDelay(base, attempt), with Math.random() * 100 = jitter
backoffDelay(base, attempt, jitter) == base * Pow2(attempt) + jitter

\* -------------------------------------------------------------- dynamic proxy
\* DynamicProxy.setUpstream
setUpstreamMutant(d, proxy) ==
  /\ upstream' = [upstream EXCEPT ![d] = IF @ = NullUpstream THEN proxy ELSE @]
  /\ lastSet' = [lastSet EXCEPT ![d] = proxy]

setUpstream(d, proxy) ==
  /\ upstream' = [upstream EXCEPT ![d] = proxy]
  /\ lastSet' = [lastSet EXCEPT ![d] = proxy]

\* DynamicProxy.currentUpstream
currentUpstream(d) == upstream[d]

CloseSwallowsMutant == FALSE

\* try { await this.server.close(true) } catch {}
CloseSwallows == TRUE

\* server.close(true): a server that listens stops; one that does not rejects
ServerCloseRejects(srv) == ~srv.listening

\* DynamicProxy.close on a handle whose server is in state srv
closedServer(srv) ==
  [listening |-> FALSE,
   raised |-> srv.raised \/ (ServerCloseRejects(srv) /\ ~CloseSwallows)]

\* DynamicProxy.close, invoked by `who`
closeProxy(d, who) ==
  /\ closeLog' = [closeLog EXCEPT ![d] = Append(@, who)]
  /\ server' = [server EXCEPT ![d] = closedServer(@)]

\* ------------------------------------------------------------ explicit path
\* the page the retry navigation is issued on: this.rawGoto(page)
RetryPageMutant(call) == CHOOSE p \in Pages : p # call.page
RetryPage(call) == call.page

\* return { response: response ?? null, page }
Resolve(c, call) ==
  calls' = [calls EXCEPT ![c] = [call EXCEPT !.pc = "resolved",
              !.log = Append(@, NavOkEvent),
              !.result = [state |-> "resolved", page |-> call.page, err |-> ThrownUndefined]]]

\* the promise of goto rejects with err
Reject(c, call, err) ==
  calls' = [calls EXCEPT ![c] = [call EXCEPT !.pc = "rejected",
              !.result = [state |-> "rejected", page |-> "none", err |-> err]]]

\* the two throw statements after the retry loop
FinalThrow(c, call) ==
  IF InstanceOfError(call.lastErr)
  THEN Reject(c, call, call.lastErr)
  ELSE Reject(c, call, NewError(IF Falsy(call.lastErr) THEN <<"NF">> ELSE StringOf(call.lastErr)))

\* the credential the provider's get() hands out on its n-th call
ProvidedCredential(n) == IF providerKind = "rotating" THEN Credential(n) ELSE Credential(1)

\* the loop condition attempt <= maxRetries
LoopContinuesMutant(a) == a <= maxRetries + 1
LoopContinues(a) == a <= maxRetries

LoopHeadMutant(c, call, a) ==
  IF LoopContinues(a)
  THEN IF a = 1
       THEN /\ providerCalls' = providerCalls + 1
            /\ calls' = [calls EXCEPT ![c] = [call EXCEPT !.pc = "acquire", !.attempt = a,
                           !.cred = ProvidedCredential(providerCalls + 1),
                           !.log = Append(@, GetEvent)]]
       ELSE /\ UNCHANGED providerCalls
            /\ calls' = [calls EXCEPT ![c] = [call EXCEPT !.pc = "loaded", !.attempt = a,
                           !.log = Append(@, LoadedEvent(call.cred))]]
  ELSE /\ FinalThrow(c, call)
       /\ UNCHANGED providerCalls

\* no proxyProvider is configured and ALUVIA_API_KEY is not set: getAluviaProxy
\* throws before it asks for a proxy
NoProviderNoKey == providerKind = "builtinNoKey"

\* what proxyProvider?.get() ?? getAluviaProxy() rejects with
AcquisitionError == IF NoProviderNoKey THEN MissingApiKey ELSE ProviderError

\* the loop head with attempt = a, and, inside the loop, the call of
\* proxyProvider.get()
LoopHead(c, call, a) ==
  IF LoopContinues(a)
  THEN /\ providerCalls' = providerCalls + 1
       /\ calls' = [calls EXCEPT ![c] = [call EXCEPT !.pc = "acquire", !.attempt = a,
                      !.cred = ProvidedCredential(providerCalls + 1),
                      !.log = Append(@, GetEvent)]]
  ELSE /\ FinalThrow(c, call)
       /\ UNCHANGED providerCalls

GotoStartMutant(c, p, d) ==
  /\ calls[c].pc = "idle"
  /\ \A b \in Calls : b < c => calls[b].pc # "idle"
  /\ p \in Range(contextPages)
  /\ ~contextClosed[PageContext(p)]
  /\ closeListeners' = [closeListeners EXCEPT ![PageContext(p)] = Append(@, d)]
  /\ CONTEXT_LISTENER_ATTACHED' = CONTEXT_LISTENER_ATTACHED \cup {PageContext(p)}
  /\ calls' = [calls EXCEPT ![c] = [@ EXCEPT !.pc = "nav", !.page = p, !.proxy = d,
                 !.log = << NavEvent(p, upstream[d]) >>]]
  /\ UNCHANGED <<configVars, providerCalls, upstreamVars, closeVars, contextClosed, runnerVars>>

GotoStartResetMutant(c, p, d) ==
  /\ calls[c].pc = "idle"
  /\ \A b \in Calls : b < c => calls[b].pc # "idle"
  /\ p \in Range(contextPages)
  /\ ~contextClosed[PageContext(p)]
  /\ LET ctx == PageContext(p) IN
       IF ctx \notin CONTEXT_LISTENER_ATTACHED
       THEN /\ closeListeners' = [closeListeners EXCEPT ![ctx] = Append(@, d)]
            /\ CONTEXT_LISTENER_ATTACHED' = CONTEXT_LISTENER_ATTACHED \cup {ctx}
       ELSE UNCHANGED <<closeListeners, CONTEXT_LISTENER_ATTACHED>>
  /\ setUpstream(d, NullUpstream)
  /\ calls' = [calls EXCEPT ![c] = [@ EXCEPT !.pc = "nav", !.page = p, !.proxy = d,
                 !.log = << NavEvent(p, NullUpstream) >>]]
  /\ UNCHANGED <<configVars, providerCalls, closeVars, contextClosed, runnerVars>>

\* goto(url, gotoOptions) up to the await of the first navigation
GotoStart(c, p, d) ==
  /\ calls[c].pc = "idle"
  /\ \A b \in Calls : b < c => calls[b].pc # "idle"
  /\ p \in Range(contextPages)
  /\ ~contextClosed[PageContext(p)]
  /\ LET ctx == PageContext(p) IN
       IF ctx \notin CONTEXT_LISTENER_ATTACHED
       THEN /\ closeListeners' = [closeListeners EXCEPT ![ctx] = Append(@, d)]
            /\ CONTEXT_LISTENER_ATTACHED' = CONTEXT_LISTENER_ATTACHED \cup {ctx}
       ELSE UNCHANGED <<closeListeners, CONTEXT_LISTENER_ATTACHED>>
  /\ calls' = [calls EXCEPT ![c] = [@ EXCEPT !.pc = "nav", !.page = p, !.proxy = d,
                 !.log = << NavEvent(p, upstream[d]) >>]]
  /\ UNCHANGED <<configVars, providerCalls, upstreamVars, closeVars, contextClosed, runnerVars>>

NavSucceedsMutant(c) ==
  /\ calls[c].pc = "nav"
  /\ IF calls[c].attempt = 0
     THEN Resolve(c, calls[c]) /\ UNCHANGED providerCalls
     ELSE LoopHead(c, [calls[c] EXCEPT !.log = Append(@, NavOkEvent)], calls[c].attempt + 1)
  /\ UNCHANGED <<configVars, upstreamVars, closeVars, contextVars, runnerVars>>

\* the awaited navigation returns a response
NavSucceeds(c) ==
  /\ calls[c].pc = "nav"
  /\ Resolve(c, calls[c])
  /\ UNCHANGED <<configVars, providerCalls, upstreamVars, closeVars, contextVars, runnerVars>>

\* the catch blocks: the awaited navigation throws `failure`
NavFails(c, failure) ==
  /\ calls[c].pc = "nav"
  /\ LET err  == [failure EXCEPT !.nav = Count(calls[c].log, "nav")]
         call == [calls[c] EXCEPT !.lastErr = err, !.log = Append(@, NavFailedEvent(err))]
     IN IF call.attempt = 0
        THEN IF ~GotoIsRetryable(RetryOn, err)
             THEN Reject(c, call, err) /\ UNCHANGED providerCalls
             ELSE LoopHead(c, call, 1)
        ELSE IF ~GotoIsRetryable(RetryOn, err)
             THEN FinalThrow(c, call) /\ UNCHANGED providerCalls
             ELSE LoopHead(c, call, call.attempt + 1)
  /\ UNCHANGED <<configVars, upstreamVars, closeVars, contextVars, runnerVars>>

\* the awaited proxyProvider.get() settles with a credential: onProxyLoaded is called
AcquireSucceeds(c) ==
  /\ calls[c].pc = "acquire"
  /\ ~NoProviderNoKey
  /\ calls' = [calls EXCEPT ![c] = [@ EXCEPT !.pc = "loaded",
                 !.log = Append(@, LoadedEvent(calls[c].cred))]]
  /\ UNCHANGED <<configVars, providerCalls, upstreamVars, closeVars, contextVars, runnerVars>>

\* the awaited proxyProvider.get() rejects (the catch stores the error and
\* yields undefined) or resolves with nothing
AcquireFails(c, threw) ==
  /\ calls[c].pc = "acquire"
  /\ NoProviderNoKey => threw
  /\ LET failed == [calls[c] EXCEPT !.log = Append(@, GetFailedEvent)]
         call == IF threw THEN [failed EXCEPT !.lastErr = AcquisitionError] ELSE failed
     IN Reject(c, call, ProxyFetchFailed)
  /\ UNCHANGED <<configVars, providerCalls, upstreamVars, closeVars, contextVars, runnerVars>>

\* the awaited onProxyLoaded returns: setUpstream is called
ProxyLoadedReturns(c) ==
  /\ calls[c].pc = "loaded"
  /\ setUpstream(calls[c].proxy, calls[c].cred)
  /\ calls' = [calls EXCEPT ![c] = [@ EXCEPT !.pc = "apply",
                 !.log = Append(@, SetUpstreamEvent(calls[c].cred))]]
  /\ UNCHANGED <<configVars, providerCalls, closeVars, contextVars, runnerVars>>

\* the awaited onProxyLoaded throws: the call rejects with what it threw
ProxyLoadedThrows(c) ==
  /\ calls[c].pc = "loaded"
  /\ Reject(c, [calls[c] EXCEPT !.log = Append(@, LoadedThrewEvent)], CallbackError)
  /\ UNCHANGED <<configVars, providerCalls, upstreamVars, closeVars, contextVars, runnerVars>>

CallOnRetryMutant(c, call) ==
  calls' = [calls EXCEPT ![c] = [call EXCEPT !.pc = "onRetry",
              !.log = Append(@, OnRetryEvent(call.attempt - 1, maxRetries, call.lastErr))]]

\* onRetry?.(attempt, maxRetries, lastErr)
CallOnRetry(c, call) ==
  calls' = [calls EXCEPT ![c] = [call EXCEPT !.pc = "onRetry",
              !.log = Append(@, OnRetryEvent(call.attempt, maxRetries, call.lastErr))]]

\* the awaited setUpstream returns: the backoff timer is started, or, with
\* backoffMs = 0, onRetry is called at once
SetUpstreamReturns(c, jitter) ==
  /\ calls[c].pc = "apply"
  /\ IF backoffMs > 0
     THEN calls' = [calls EXCEPT ![c] = [@ EXCEPT !.pc = "backoff",
                      !.log = Append(@, BackoffEvent(
                                 backoffDelay(backoffMs, calls[c].attempt - 1, jitter)))]]
     ELSE /\ jitter = 0
          /\ CallOnRetry(c, calls[c])
  /\ UNCHANGED <<configVars, providerCalls, upstreamVars, closeVars, contextVars, runnerVars>>

BackoffElapsesMutant(c) ==
  /\ calls[c].pc = "backoff"
  /\ UNCHANGED vars

\* the backoff timer fires: onRetry is called
BackoffElapses(c) ==
  /\ calls[c].pc = "backoff"
  /\ CallOnRetry(c, calls[c])
  /\ UNCHANGED <<configVars, providerCalls, upstreamVars, closeVars, contextVars, runnerVars>>

\* the awaited onRetry returns: the retry navigation is started
OnRetryReturns(c) ==
  /\ calls[c].pc = "onRetry"
  /\ calls' = [calls EXCEPT ![c] = [@ EXCEPT !.pc = "nav",
                 !.log = Append(@, NavEvent(RetryPage(calls[c]), upstream[calls[c].proxy]))]]
  /\ UNCHANGED <<configVars, providerCalls, upstreamVars, closeVars, contextVars, runnerVars>>

\* the awaited onRetry throws: the call rejects with what it threw
OnRetryThrows(c) ==
  /\ calls[c].pc = "onRetry"
  /\ Reject(c, [calls[c] EXCEPT !.log = Append(@, OnRetryThrewEvent)], CallbackError)
  /\ UNCHANGED <<configVars, providerCalls, upstreamVars, closeVars, contextVars, runnerVars>>

\* ------------------------------------------------------------ session close
\* the "close" listeners of a context run in the order of their registration
RECURSIVE CloseAll(_, _)
CloseAll(log, handles) ==
  IF handles = << >> THEN log
  ELSE CloseAll([log EXCEPT ![Head(handles)] = Append(@, "hook")], Tail(handles))

\* the servers after the same listeners have run
RECURSIVE CloseAllServers(_, _)
CloseAllServers(srv, handles) ==
  IF handles = << >> THEN srv
  ELSE CloseAllServers([srv EXCEPT ![Head(handles)] = closedServer(@)], Tail(handles))

\* context.close(): "close" is emitted once
ContextClose(s) ==
  /\ ~contextClosed[s]
  /\ contextClosed' = [contextClosed EXCEPT ![s] = TRUE]
  /\ closeLog' = CloseAll(closeLog, closeListeners[s])
  /\ server' = CloseAllServers(server, closeListeners[s])
  /\ UNCHANGED <<configVars, providerCalls, calls, upstreamVars,
                 CONTEXT_LISTENER_ATTACHED, closeListeners, runnerVars>>

\* the caller invokes dyn.close() itself; close() swallows what the server throws
ManualClose(d) ==
  /\ Len(SelectSeq(closeLog[d], LAMBDA w : w = "manual")) < 1
  /\ closeProxy(d, "manual")
  /\ UNCHANGED <<configVars, providerCalls, calls, upstreamVars, contextVars, runnerVars>>

\* ------------------------------------------------------- event-driven path
\* the pages of `list`, in order, that the runner does not track yet
RECURSIVE Untracked(_, _)
Untracked(list, tracked) ==
  IF list = << >> THEN << >>
  ELSE IF Head(list) \in Range(tracked)
       THEN Untracked(Tail(list), tracked)
       ELSE <<Head(list)>> \o Untracked(Tail(list), Append(tracked, Head(list)))

\* patchGoto: only the runner of src/src/event-runner.ts wraps page.goto
patchGoto(new, times) ==
  gotoWrappers' = [p \in Pages |->
     IF variant = "wrapping" /\ p \in Range(new) THEN gotoWrappers[p] + times
     ELSE gotoWrappers[p]]

\* attachPageListeners
attachPageListeners(new, times) ==
  requestFailedListeners' = [p \in Pages |->
     IF p \in Range(new) THEN requestFailedListeners[p] + times
     ELSE requestFailedListeners[p]]

\* listen(context): the "close" and "page" listeners are registered and the
\* pages that are open and not tracked yet are tracked
Listen(s) ==
  /\ pageListeners < MaxListens
  /\ ~contextClosed[s]
  /\ closeListeners' = [closeListeners EXCEPT ![s] = Append(@, RunnerProxy)]
  /\ pageListeners' = pageListeners + 1
  /\ LET new == Untracked(contextPages, pages) IN
       /\ pages' = pages \o new
       /\ patchGoto(new, 1)
       /\ attachPageListeners(new, 1)
  /\ UNCHANGED <<configVars, providerCalls, calls, upstreamVars, closeVars,
                 CONTEXT_LISTENER_ATTACHED, contextClosed, pageVars, retryVars>>

\* n copies of p
Copies(p, n) == [i \in 1..n |-> p]

\* attachPage of agentConnectListener: pages.add(page); page.on(...), once
\* per page
attachPage(l, new) == [l EXCEPT !.attached = @ \cup new]

\* context.newPage(): the context emits "page" and every "page" listener of
\* the runner pushes, wraps and attaches; the "page" listener of
\* agentConnectListener attaches
NewPage(p) ==
  /\ p \notin Range(contextPages)
  /\ ~contextClosed[PageContext(p)]
  /\ contextPages' = Append(contextPages, p)
  /\ pages' = pages \o Copies(p, pageListeners)
  /\ patchGoto(<<p>>, pageListeners)
  /\ attachPageListeners(<<p>>, pageListeners)
  /\ listener' = IF listener.emitters[PageContext(p)].created
                 THEN attachPage(listener, {p}) ELSE listener
  /\ UNCHANGED <<runnerConfigVars, providerCalls, calls, upstreamVars, closeVars, contextVars,
                 pageClosed, pageListeners, retryVars>>

\* page.close()
ClosePage(p) ==
  /\ p \in Range(contextPages)
  /\ ~pageClosed[p]
  /\ pageClosed' = [pageClosed EXCEPT ![p] = TRUE]
  /\ UNCHANGED <<configVars, providerCalls, calls, upstreamVars, closeVars, contextVars,
                 contextPages, trackingVars, retryVars>>

\* compileRetryable of the event runners: as the goto runner's, without the
\* test for a falsy value; the errorText of a request failure is its message
EventIsRetryableMutant(patterns, err) == TRUE

EventIsRetryable(patterns, err) ==
  \E i \in 1..Len(patterns) :
    \/ PatternMatches(patterns[i], MessageOf(err))
    \/ PatternMatches(patterns[i], err.code)
    \/ PatternMatches(patterns[i], err.name)

\* { errorText }
FailureDescriptor(errorText) ==
  Thrown("object", TRUE, errorText, EmptyText, EmptyText, EmptyText)

\* ['document', 'frame', 'main_frame'].includes(resourceType)
NavigationTypes == {"document", "frame", "main_frame"}

\* what the provider's get() resolves with when it has nothing: undefined
UndefinedCredential == [server |-> "undefined", username |-> 0]

\* typeof page.reload === 'function': the pages of Playwright and of the tests
\* have reload
HasReload(p) == TRUE

\* page.reload({ waitUntil }), or page.goto(lastUrl, { waitUntil }) without reload
RenavigateEvent(p, up) ==
  [ev |-> "nav", how |-> IF HasReload(p) THEN "reload" ELSE "goto", page |-> p, upstream |-> up,
   closed |-> pageClosed[p]]

\* the requests a page reports as failed
Requests ==
  { [resourceType |-> t, errorText |-> e, url |-> u] :
      t \in {"document", "image"}, e \in {<<"T">>, <<"N">>}, u \in {"url"} }
  \cup { [resourceType |-> "document", errorText |-> <<"T">>, url |-> ""] }

\* retryNavigation has returned / has thrown err; the handler still awaits it
Returned(act) == [act EXCEPT !.pc = "settled", !.outcome = "returned"]
Threw(act, err) == [act EXCEPT !.pc = "settled", !.outcome = "threw", !.thrown = err]

\* the throw statements after the loop of retryNavigation, part_003
N_FinalThrow(act) ==
  IF InstanceOfError(act.lastErr) THEN Threw(act, act.lastErr)
  ELSE IF ~Falsy(act.lastErr) THEN Threw(act, NewError(StringOf(act.lastErr)))
  ELSE Threw(act, NewError(<<"NR">>))

\* if (lastErr) throw lastErr, event-runner.ts
W_FinalThrow(act) ==
  IF ~Falsy(act.lastErr) THEN Threw(act, act.lastErr) ELSE Returned(act)

\* part_003: the loop head with attempt = a and the call of get(), the n-th
N_LoopHead(act, a, n) ==
  IF LoopContinues(a)
  THEN [act EXCEPT !.pc = "acquire", !.attempt = a, !.cred = ProvidedCredential(n),
                   !.log = Append(@, GetEvent)]
  ELSE N_FinalThrow(act)

W_LoopHeadMutant(act, a) ==
  IF a <= maxRetries + 1
  THEN [act EXCEPT !.pc = "onRetry", !.attempt = a,
                   !.log = Append(@, OnRetryEvent(a, maxRetries, act.lastErr))]
  ELSE W_FinalThrow(act)

\* event-runner.ts: the loop head with attempt = a and the call of onRetry
W_LoopHead(act, a) ==
  IF LoopContinues(a)
  THEN [act EXCEPT !.pc = "onRetry", !.attempt = a,
                   !.log = Append(@, OnRetryEvent(a, maxRetries, act.lastErr))]
  ELSE W_FinalThrow(act)

\* event-runner.ts: the re-navigation, unless the page is closed
W_Renavigate(act) ==
  IF pageClosed[act.page] THEN Returned(act)
  ELSE [act EXCEPT !.pc = "nav",
                   !.log = Append(@, RenavigateEvent(act.page, upstream[RunnerProxy]))]

\* event-runner.ts: the backoff wait, then the re-navigation
W_Backoff(act, jitter) ==
  IF backoffMs > 0
  THEN [act EXCEPT !.pc = "backoff",
                   !.log = Append(@, BackoffEvent(backoffDelay(backoffMs, act.attempt - 1, jitter)))]
  ELSE W_Renavigate(act)

\* part_003: onRetry?.(attempt, maxRetries, lastErr)
N_CallOnRetry(act) ==
  [act EXCEPT !.pc = "onRetry",
              !.log = Append(@, OnRetryEvent(act.attempt, maxRetries, act.lastErr))]

\* retryNavigation(page, request.url()) up to its first await
StartSequence(p, req, n, trigger) ==
  LET act == [page |-> p, pc |-> "start", attempt |-> 0, lastErr |-> ThrownUndefined,
              cred |-> NullUpstream, log |-> << >>, trigger |-> trigger,
              request |-> req, outcome |-> "pending", thrown |-> ThrownUndefined,
              escaped |-> FALSE, closedAtEnd |-> FALSE]
  IN IF req.url = "" THEN Returned(act)
     ELSE IF variant = "notification" THEN N_LoopHead(act, 1, n + 1)
     ELSE W_LoopHead(act, 1)

AlreadyRunningMutant(running, p) == FALSE

\* this.runningRetries.has(page)
AlreadyRunning(running, p) == p \in running

NavigationClass(resourceType) == resourceType \in NavigationTypes

\* the handler passes its guards: the page is marked and the sequence started
Started(st, p, req, trigger) ==
  LET act == StartSequence(p, req, st.providerCalls, trigger) IN
    [running |-> st.running \cup {p},
     acts |-> Append(st.acts, act),
     providerCalls |-> st.providerCalls + (IF act.pc = "acquire" THEN 1 ELSE 0)]

\* the requestfailed listener of part_003, up to its first await
N_Handler(st, p, req, trigger) ==
  IF AlreadyRunning(st.running, p) THEN st
  ELSE IF ~NavigationClass(req.resourceType) THEN st
  ELSE IF ~EventIsRetryable(RetryOn, FailureDescriptor(req.errorText)) THEN st
  ELSE Started(st, p, req, trigger)

\* the requestfailed listener of event-runner.ts, up to its first await
W_Handler(st, p, req, trigger) ==
  IF pageClosed[p] THEN st
  ELSE IF ~EventIsRetryable(RetryOn, FailureDescriptor(req.errorText)) THEN st
  ELSE IF AlreadyRunning(st.running, p) THEN st
  ELSE Started(st, p, req, trigger)

\* the page runs its k requestfailed listeners, one after the other
RECURSIVE Dispatch(_, _, _, _, _)
Dispatch(k, st, p, req, trigger) ==
  IF k = 0 THEN st
  ELSE Dispatch(k - 1,
                IF variant = "notification" THEN N_Handler(st, p, req, trigger)
                ELSE W_Handler(st, p, req, trigger),
                p, req, trigger)

\* a sequence of the handler is in progress for page p
InFlight(p) == \E i \in 1..Len(acts) : acts[i].page = p /\ acts[i].pc # "done"

\* the page emits requestfailed for req
RequestFailed(p, req) ==
  /\ notified < MaxNotifications
  /\ p \in Range(contextPages)
  /\ LET st == Dispatch(requestFailedListeners[p],
                        [running |-> runningRetries, acts |-> acts,
                         providerCalls |-> providerCalls],
                        p, req, notified + 1)
     IN /\ runningRetries' = st.running
        /\ acts' = st.acts
        /\ providerCalls' = st.providerCalls
  /\ notified' = notified + 1
  /\ lastNotification' = [page |-> p, resourceType |-> req.resourceType,
                          errorText |-> req.errorText, url |-> req.url,
                          inFlight |-> InFlight(p), closed |-> pageClosed[p]]
  /\ UNCHANGED <<configVars, calls, upstreamVars, closeVars, contextVars, pageVars, trackingVars>>

\* activation i goes on to `act`, calling setUpstream if `set` says so; a
\* step that ends at the await of get() has called get()
Step(i, act, set) ==
  /\ acts' = [acts EXCEPT ![i] = act]
  /\ providerCalls' = providerCalls + (IF act.pc = "acquire" THEN 1 ELSE 0)
  /\ IF set.called THEN setUpstream(RunnerProxy, set.arg) ELSE UNCHANGED upstreamVars
  /\ UNCHANGED <<configVars, calls, closeVars, contextVars, pageVars, trackingVars,
                 runningRetries, notified, lastNotification>>

\* dynamicProxy.setUpstream(cred) is called, or is not
Applied(cred) == [called |-> TRUE, arg |-> cred]
NoSet == [called |-> FALSE, arg |-> NullUpstream]

\* the awaited get() settles with a credential
EvAcquireSucceeds(i) ==
  /\ acts[i].pc = "acquire"
  /\ IF variant = "notification"
     THEN Step(i, [acts[i] EXCEPT !.pc = "loaded",
                      !.log = Append(@, LoadedEvent(acts[i].cred))], NoSet)
     ELSE Step(i, [acts[i] EXCEPT !.pc = "apply",
                      !.log = Append(@, SetUpstreamEvent(acts[i].cred))], Applied(acts[i].cred))

\* the awaited get() rejects, or resolves with undefined
EvAcquireFails(i, threw, jitter) ==
  /\ acts[i].pc = "acquire"
  /\ LET failed == [acts[i] EXCEPT !.log = Append(@, GetFailedEvent)] IN
     IF variant = "notification"
     THEN Step(i, Threw(IF threw THEN [failed EXCEPT !.lastErr = ProviderError] ELSE failed,
                        ProxyFetchFailed), NoSet)
     ELSE IF threw
          THEN Step(i, W_Backoff(failed, jitter), NoSet)
          ELSE Step(i, [failed EXCEPT !.pc = "apply", !.cred = UndefinedCredential,
                           !.log = Append(@, SetUpstreamEvent(UndefinedCredential))],
                    Applied(UndefinedCredential))

\* the awaited onProxyLoaded returns, or throws
EvProxyLoadedSettles(i, threw, jitter) ==
  /\ acts[i].pc = "loaded"
  /\ LET act == IF threw THEN [acts[i] EXCEPT !.log = Append(@, LoadedThrewEvent)]
                ELSE acts[i]
     IN IF variant = "notification"
        THEN IF threw
             THEN Step(i, Threw(act, CallbackError), NoSet)
             ELSE Step(i, [act EXCEPT !.pc = "apply",
                              !.log = Append(@, SetUpstreamEvent(act.cred))],
                       Applied(act.cred))
        ELSE Step(i, W_Backoff(act, jitter), NoSet)

\* the awaited setUpstream returns
EvSetUpstreamReturns(i, jitter) ==
  /\ acts[i].pc = "apply"
  /\ IF variant = "notification"
     THEN IF backoffMs > 0
          THEN Step(i, [acts[i] EXCEPT !.pc = "backoff",
                           !.log = Append(@, BackoffEvent(
                                      backoffDelay(backoffMs, acts[i].attempt - 1, jitter)))],
                    NoSet)
          ELSE Step(i, N_CallOnRetry(acts[i]), NoSet)
     ELSE IF acts[i].cred # UndefinedCredential
          THEN Step(i, [acts[i] EXCEPT !.pc = "loaded",
                           !.log = Append(@, LoadedEvent(acts[i].cred))], NoSet)
          ELSE Step(i, W_Backoff(acts[i], jitter), NoSet)

\* the backoff timer fires
EvBackoffElapses(i) ==
  /\ acts[i].pc = "backoff"
  /\ IF variant = "notification"
     THEN Step(i, N_CallOnRetry(acts[i]), NoSet)
     ELSE Step(i, W_Renavigate(acts[i]), NoSet)

\* the awaited onRetry returns
EvOnRetryReturns(i, jitter) ==
  /\ acts[i].pc = "onRetry"
  /\ IF variant = "notification"
     THEN Step(i, [acts[i] EXCEPT !.pc = "nav",
                      !.log = Append(@, RenavigateEvent(acts[i].page, upstream[RunnerProxy]))],
               NoSet)
     ELSE IF acts[i].attempt = 1
          THEN Step(i, [acts[i] EXCEPT !.pc = "acquire",
                           !.cred = ProvidedCredential(providerCalls + 1),
                           !.log = Append(@, GetEvent)], NoSet)
          ELSE Step(i, W_Backoff(acts[i], jitter), NoSet)

\* the awaited onRetry throws
EvOnRetryThrows(i) ==
  /\ acts[i].pc = "onRetry"
  /\ Step(i, Threw([acts[i] EXCEPT !.log = Append(@, OnRetryThrewEvent)], CallbackError),
          NoSet)

\* the awaited reload returns
EvNavSucceeds(i) ==
  /\ acts[i].pc = "nav"
  /\ Step(i, Returned([acts[i] EXCEPT !.log = Append(@, NavOkEvent)]), NoSet)

\* the awaited reload throws `failure`
EvNavFails(i, failure) ==
  /\ acts[i].pc = "nav"
  /\ LET err == [failure EXCEPT !.nav = Count(acts[i].log, "nav")]
         act == [acts[i] EXCEPT !.lastErr = err, !.log = Append(@, NavFailedEvent(err))]
     IN IF ~EventIsRetryable(RetryOn, err)
        THEN Step(i, IF variant = "notification" THEN N_FinalThrow(act) ELSE W_FinalThrow(act),
                  NoSet)
        ELSE Step(i, IF variant = "notification"
                     THEN N_LoopHead(act, act.attempt + 1, providerCalls + 1)
                     ELSE W_LoopHead(act, act.attempt + 1),
                  NoSet)

HandlerFinallyMutant(i) ==
  /\ acts[i].pc = "settled"
  /\ acts' = [acts EXCEPT ![i] = [@ EXCEPT !.pc = "done",
                !.escaped = (variant = "notification" /\ acts[i].outcome = "threw"),
                !.closedAtEnd = pageClosed[acts[i].page]]]
  /\ UNCHANGED <<configVars, providerCalls, calls, upstreamVars, closeVars, contextVars,
                 pageVars, trackingVars, runningRetries, notified, lastNotification>>

\* the handler resumes after retryNavigation: the finally block clears the
\* flag; part_003 lets what was thrown escape, event-runner.ts swallows it
HandlerFinally(i) ==
  /\ acts[i].pc = "settled"
  /\ runningRetries' = runningRetries \ {acts[i].page}
  /\ acts' = [acts EXCEPT ![i] = [@ EXCEPT !.pc = "done",
                !.escaped = (variant = "notification" /\ acts[i].outcome = "threw"),
                !.closedAtEnd = pageClosed[acts[i].page]]]
  /\ UNCHANGED <<configVars, providerCalls, calls, upstreamVars, closeVars, contextVars,
                 pageVars, trackingVars, notified, lastNotification>>

\* what a re-navigation of the event-driven path is met by
EventFailures == {ErrTimeout, ErrFatal}

\* the jitter drawn by the event-driven path's backoff
EventJitters == {0}

\* the page the session of the event-driven runs opens
EventPages == {"p1"}

\* a runner that listens, once or more, to a session whose page is opened
\* before or after, reports failed requests and may be closed
EventNext ==
  \/ \E s \in Contexts : Listen(s)
  \/ \E p \in EventPages : NewPage(p)
  \/ \E p \in EventPages : ClosePage(p)
  \/ \E p \in EventPages, req \in Requests : RequestFailed(p, req)
  \/ \E i \in 1..Len(acts) : EvAcquireSucceeds(i)
  \/ \E i \in 1..Len(acts), threw \in BOOLEAN, j \in EventJitters : EvAcquireFails(i, threw, j)
  \/ \E i \in 1..Len(acts), threw \in BOOLEAN, j \in EventJitters : EvProxyLoadedSettles(i, threw, j)
  \/ \E i \in 1..Len(acts), j \in EventJitters : EvSetUpstreamReturns(i, j)
  \/ \E i \in 1..Len(acts) : EvBackoffElapses(i)
  \/ \E i \in 1..Len(acts), j \in EventJitters : EvOnRetryReturns(i, j)
  \/ \E i \in 1..Len(acts) : EvOnRetryThrows(i)
  \/ \E i \in 1..Len(acts) : EvNavSucceeds(i)
  \/ \E i \in 1..Len(acts), f \in EventFailures : EvNavFails(i, f)
  \/ \E i \in 1..Len(acts) : HandlerFinally(i)

InitEvent == InitWith({1}, BackoffChoices, {"rotating"}, Variants, << >>)

SpecEvent == InitEvent /\ [][EventNext]_vars

\* goto calls without a retry budget that may overlap, a runner that listens,
\* and the session and the handles being closed
SessionNext ==
  \/ \E c \in Calls, p \in Pages, d \in Proxies : GotoStart(c, p, d)
  \/ \E c \in Calls : NavSucceeds(c)
  \/ \E c \in Calls : NavFails(c, ErrTimeout)
  \/ \E s \in Contexts : Listen(s)
  \/ \E s \in Contexts : ContextClose(s)
  \/ \E d \in Proxies : ManualClose(d)

InitSession == InitWith({0}, {0}, {"rotating"}, {"notification"}, <<"p1", "p2">>)

SpecSession == InitSession /\ [][SessionNext]_vars

\* one goto call, met by every kind of failure
GotoNext ==
  \/ \E p \in Pages, d \in Proxies : GotoStart(1, p, d)
  \/ NavSucceeds(1)
  \/ \E f \in Failures : NavFails(1, f)
  \/ AcquireSucceeds(1)
  \/ \E threw \in BOOLEAN : AcquireFails(1, threw)
  \/ ProxyLoadedReturns(1)
  \/ ProxyLoadedThrows(1)
  \/ \E j \in Jitters : SetUpstreamReturns(1, j)
  \/ BackoffElapses(1)
  \/ OnRetryReturns(1)
  \/ OnRetryThrows(1)

SpecGoto == Init /\ [][GotoNext]_vars

\* one goto call of a runner without a proxyProvider, in a process without
\* ALUVIA_API_KEY
NoKeyNext ==
  \/ \E p \in Pages, d \in Proxies : GotoStart(1, p, d)
  \/ NavSucceeds(1)
  \/ \E f \in Failures : NavFails(1, f)
  \/ AcquireFails(1, TRUE)

InitNoKey ==
  InitWith(0..MaxRetriesBound, BackoffChoices, {"builtinNoKey"}, {"notification"}, <<"p1", "p2">>)

SpecNoKey == InitNoKey /\ [][NoKeyNext]_vars

\* ------------------------------------- the wrapper patchGoto puts on page.goto
\* the wrapped page.goto(url) of a tracked page, up to the await of the
\* original goto
PatchedGotoStart(c, p) ==
  /\ variant = "wrapping"
  /\ gotoWrappers[p] = 1
  /\ ~pageClosed[p]
  /\ calls[c].pc = "idle"
  /\ \A b \in Calls : b < c => calls[b].pc # "idle"
  /\ calls' = [calls EXCEPT ![c] = [@ EXCEPT !.pc = "p_nav", !.page = p, !.proxy = RunnerProxy,
                 !.log = << NavEvent(p, upstream[RunnerProxy]) >>]]
  /\ UNCHANGED <<configVars, providerCalls, upstreamVars, closeVars, contextVars, runnerVars>>

\* the loop head of the wrapper with attempt = a: prepareUpstream calls
\* onRetry; after the loop, throw lastErr
PatchedLoopHead(c, call, a) ==
  IF a <= maxRetries
  THEN calls' = [calls EXCEPT ![c] = [call EXCEPT !.pc = "p_onRetry", !.attempt = a,
                   !.log = Append(@, OnRetryEvent(a, maxRetries, call.lastErr))]]
  ELSE Reject(c, call, call.lastErr)

\* prepareUpstream has returned: the backoff wait, then the original goto
PatchedAfterPrepare(c, call, jitter) ==
  calls' = [calls EXCEPT ![c] =
     IF backoffMs > 0
     THEN [call EXCEPT !.pc = "p_backoff",
             !.log = Append(@, BackoffEvent(backoffDelay(backoffMs, call.attempt - 1, jitter)))]
     ELSE [call EXCEPT !.pc = "p_nav",
             !.log = Append(@, NavEvent(call.page, upstream[RunnerProxy]))]]

\* the awaited original goto returns a response
PatchedNavSucceeds(c) ==
  /\ calls[c].pc = "p_nav"
  /\ Resolve(c, calls[c])
  /\ UNCHANGED <<configVars, providerCalls, upstreamVars, closeVars, contextVars, runnerVars>>

\* the awaited original goto throws `failure`
PatchedNavFails(c, failure) ==
  /\ calls[c].pc = "p_nav"
  /\ LET err  == [failure EXCEPT !.nav = Count(calls[c].log, "nav")]
         call == [calls[c] EXCEPT !.lastErr = err, !.log = Append(@, NavFailedEvent(err))]
     IN IF ~EventIsRetryable(RetryOn, err)
        THEN Reject(c, call, err)
        ELSE PatchedLoopHead(c, call, call.attempt + 1)
  /\ UNCHANGED <<configVars, providerCalls, upstreamVars, closeVars, contextVars, runnerVars>>

\* the awaited onRetry settles: thrown, it leaves the wrapper; returned,
\* attempt 1 calls proxyProvider.get() and the later attempts go on
PatchedOnRetrySettles(c, threw, jitter) ==
  /\ calls[c].pc = "p_onRetry"
  /\ IF threw
     THEN /\ Reject(c, [calls[c] EXCEPT !.log = Append(@, OnRetryThrewEvent)], CallbackError)
          /\ UNCHANGED providerCalls
     ELSE IF calls[c].attempt = 1
     THEN /\ providerCalls' = providerCalls + 1
          /\ calls' = [calls EXCEPT ![c] = [@ EXCEPT !.pc = "p_acquire",
                         !.cred = ProvidedCredential(providerCalls + 1),
                         !.log = Append(@, GetEvent)]]
     ELSE /\ PatchedAfterPrepare(c, calls[c], jitter)
          /\ UNCHANGED providerCalls
  /\ UNCHANGED <<configVars, upstreamVars, closeVars, contextVars, runnerVars>>

\* the awaited proxyProvider.get() settles: with a credential, setUpstream is
\* called; rejected, the catch of prepareUpstream swallows it
PatchedAcquireSettles(c, threw, jitter) ==
  /\ calls[c].pc = "p_acquire"
  /\ IF threw
     THEN /\ PatchedAfterPrepare(c, [calls[c] EXCEPT !.log = Append(@, GetFailedEvent)], jitter)
          /\ UNCHANGED upstreamVars
     ELSE /\ setUpstream(RunnerProxy, calls[c].cred)
          /\ calls' = [calls EXCEPT ![c] = [@ EXCEPT !.pc = "p_apply",
                         !.log = Append(@, SetUpstreamEvent(calls[c].cred))]]
  /\ UNCHANGED <<configVars, providerCalls, closeVars, contextVars, runnerVars>>

\* the awaited setUpstream returns: onProxyLoaded is called
PatchedSetUpstreamReturns(c) ==
  /\ calls[c].pc = "p_apply"
  /\ calls' = [calls EXCEPT ![c] = [@ EXCEPT !.pc = "p_loaded",
                 !.log = Append(@, LoadedEvent(calls[c].cred))]]
  /\ UNCHANGED <<configVars, providerCalls, upstreamVars, closeVars, contextVars, runnerVars>>

\* the awaited onProxyLoaded settles; what it throws is swallowed
PatchedProxyLoadedSettles(c, threw, jitter) ==
  /\ calls[c].pc = "p_loaded"
  /\ PatchedAfterPrepare(c, IF threw THEN [calls[c] EXCEPT !.log = Append(@, LoadedThrewEvent)]
                            ELSE calls[c], jitter)
  /\ UNCHANGED <<configVars, providerCalls, upstreamVars, closeVars, contextVars, runnerVars>>

\* the backoff timer fires: the original goto is called again
PatchedBackoffElapses(c) ==
  /\ calls[c].pc = "p_backoff"
  /\ calls' = [calls EXCEPT ![c] = [@ EXCEPT !.pc = "p_nav",
                 !.log = Append(@, NavEvent(calls[c].page, upstream[RunnerProxy]))]]
  /\ UNCHANGED <<configVars, providerCalls, upstreamVars, closeVars, contextVars, runnerVars>>

\* one listen call of the runner of event-runner.ts, one wrapped goto call and
\* the notifications of the page; the provider and the callbacks do not fail
PatchedNext ==
  \/ \E s \in Contexts : pageListeners = 0 /\ Listen(s)
  \/ \E p \in EventPages : PatchedGotoStart(1, p)
  \/ PatchedNavSucceeds(1)
  \/ \E f \in EventFailures : PatchedNavFails(1, f)
  \/ \E j \in EventJitters : PatchedOnRetrySettles(1, FALSE, j)
  \/ \E j \in EventJitters : PatchedAcquireSettles(1, FALSE, j)
  \/ PatchedSetUpstreamReturns(1)
  \/ \E j \in EventJitters : PatchedProxyLoadedSettles(1, FALSE, j)
  \/ PatchedBackoffElapses(1)
  \/ \E p \in EventPages, req \in Requests : RequestFailed(p, req)
  \/ \E i \in 1..Len(acts) : EvAcquireSucceeds(i)
  \/ \E i \in 1..Len(acts), j \in EventJitters : EvProxyLoadedSettles(i, FALSE, j)
  \/ \E i \in 1..Len(acts), j \in EventJitters : EvSetUpstreamReturns(i, j)
  \/ \E i \in 1..Len(acts) : EvBackoffElapses(i)
  \/ \E i \in 1..Len(acts), j \in EventJitters : EvOnRetryReturns(i, j)
  \/ \E i \in 1..Len(acts) : EvNavSucceeds(i)
  \/ \E i \in 1..Len(acts), f \in EventFailures : EvNavFails(i, f)
  \/ \E i \in 1..Len(acts) : HandlerFinally(i)

InitPatched == InitWith({1}, BackoffChoices, {"rotating"}, {"wrapping"}, <<"p1">>)

SpecPatched == InitPatched /\ [][PatchedNext]_vars

\* a runner whose provider and callbacks do not fail, on a page that stays
\* open: the retry budget of the event-driven path
RetryNext ==
  \/ \E s \in Contexts : Listen(s)
  \/ \E p \in EventPages, req \in Requests : RequestFailed(p, req)
  \/ \E i \in 1..Len(acts) : EvAcquireSucceeds(i)
  \/ \E i \in 1..Len(acts), j \in EventJitters : EvProxyLoadedSettles(i, FALSE, j)
  \/ \E i \in 1..Len(acts), j \in EventJitters : EvSetUpstreamReturns(i, j)
  \/ \E i \in 1..Len(acts) : EvBackoffElapses(i)
  \/ \E i \in 1..Len(acts), j \in EventJitters : EvOnRetryReturns(i, j)
  \/ \E i \in 1..Len(acts) : EvNavSucceeds(i)
  \/ \E i \in 1..Len(acts), f \in EventFailures : EvNavFails(i, f)
  \/ \E i \in 1..Len(acts) : HandlerFinally(i)

InitRetry == InitWith(0..MaxRetriesBound, BackoffChoices, {"rotating"}, Variants, <<"p1">>)

SpecRetry == InitRetry /\ [][RetryNext]_vars

\* the failed request of a navigation, with a failure text the patterns match
RetryableDocumentRequest == [resourceType |-> "document", errorText |-> <<"T">>, url |-> "url"]

\* one goto call through a handle of its own next to the sequence an event
\* runner starts for one notification of the page, each with its retry budget
BudgetNext ==
  \/ \E p \in EventPages : GotoStart(1, p, "d2")
  \/ NavSucceeds(1)
  \/ NavFails(1, ErrTimeout)
  \/ AcquireSucceeds(1)
  \/ AcquireFails(1, TRUE)
  \/ ProxyLoadedReturns(1)
  \/ \E j \in EventJitters : SetUpstreamReturns(1, j)
  \/ BackoffElapses(1)
  \/ OnRetryReturns(1)
  \/ \E s \in Contexts : pageListeners = 0 /\ Listen(s)
  \/ \E p \in EventPages : notified = 0 /\ RequestFailed(p, RetryableDocumentRequest)
  \/ \E i \in 1..Len(acts) : EvAcquireSucceeds(i)
  \/ \E i \in 1..Len(acts), j \in EventJitters : EvProxyLoadedSettles(i, FALSE, j)
  \/ \E i \in 1..Len(acts), j \in EventJitters : EvSetUpstreamReturns(i, j)
  \/ \E i \in 1..Len(acts) : EvBackoffElapses(i)
  \/ \E i \in 1..Len(acts), j \in EventJitters : EvOnRetryReturns(i, j)
  \/ \E i \in 1..Len(acts) : EvNavSucceeds(i)
  \/ \E i \in 1..Len(acts) : EvNavFails(i, ErrTimeout)
  \/ \E i \in 1..Len(acts) : HandlerFinally(i)

InitBudget == InitWith(0..MaxRetriesBound, {300}, {"rotating"}, Variants, <<"p1">>)

SpecBudget == InitBudget /\ [][BudgetNext]_vars

\* ---------------------------------------------------------------- termination
\* a collaborator the goto call awaits returns or throws
CallSettles ==
  \/ NavSucceeds(1)
  \/ \E f \in EventFailures : NavFails(1, f)
  \/ AcquireSucceeds(1)
  \/ \E threw \in BOOLEAN : AcquireFails(1, threw)
  \/ ProxyLoadedReturns(1)
  \/ ProxyLoadedThrows(1)
  \/ \E j \in EventJitters : SetUpstreamReturns(1, j)
  \/ BackoffElapses(1)
  \/ OnRetryReturns(1)
  \/ OnRetryThrows(1)

\* a collaborator the wrapped goto awaits returns or throws
PatchedSettles ==
  \/ PatchedNavSucceeds(1)
  \/ \E f \in EventFailures : PatchedNavFails(1, f)
  \/ \E threw \in BOOLEAN, j \in EventJitters : PatchedOnRetrySettles(1, threw, j)
  \/ \E threw \in BOOLEAN, j \in EventJitters : PatchedAcquireSettles(1, threw, j)
  \/ PatchedSetUpstreamReturns(1)
  \/ \E threw \in BOOLEAN, j \in EventJitters : PatchedProxyLoadedSettles(1, threw, j)
  \/ PatchedBackoffElapses(1)

\* a collaborator a sequence of the handler awaits returns or throws, or the
\* handler resumes
SequenceSettles ==
  \/ \E i \in 1..Len(acts) : EvAcquireSucceeds(i)
  \/ \E i \in 1..Len(acts), threw \in BOOLEAN, j \in EventJitters : EvAcquireFails(i, threw, j)
  \/ \E i \in 1..Len(acts), threw \in BOOLEAN, j \in EventJitters : EvProxyLoadedSettles(i, threw, j)
  \/ \E i \in 1..Len(acts), j \in EventJitters : EvSetUpstreamReturns(i, j)
  \/ \E i \in 1..Len(acts) : EvBackoffElapses(i)
  \/ \E i \in 1..Len(acts), j \in EventJitters : EvOnRetryReturns(i, j)
  \/ \E i \in 1..Len(acts) : EvOnRetryThrows(i)
  \/ \E i \in 1..Len(acts) : EvNavSucceeds(i)
  \/ \E i \in 1..Len(acts), f \in EventFailures : EvNavFails(i, f)
  \/ \E i \in 1..Len(acts) : HandlerFinally(i)

\* a session used through a goto runner, or through an event runner: one
\* goto call, or one wrapped goto and the sequence of one notification
TerminationNext ==
  \/ \E p \in EventPages : pageListeners = 0 /\ GotoStart(1, p, "d2")
  \/ CallSettles
  \/ \E s \in Contexts : pageListeners = 0 /\ calls[1].pc = "idle" /\ Listen(s)
  \/ \E p \in EventPages : PatchedGotoStart(1, p)
  \/ PatchedSettles
  \/ \E p \in EventPages : notified = 0 /\ RequestFailed(p, RetryableDocumentRequest)
  \/ SequenceSettles

InitTermination == InitWith(0..MaxRetriesBound, BackoffChoices, {"rotating"}, Variants, <<"p1">>)

\* every awaited collaborator call returns or throws in the end
SpecTermination ==
  /\ InitTermination
  /\ [][TerminationNext]_vars
  /\ WF_vars(CallSettles)
  /\ WF_vars(PatchedSettles)
  /\ WF_vars(SequenceSettles)

\* ------------------------------------------------------- tracking alone
SnapshotIsCopyMutant == FALSE

\* [...this.pages]: the array returned is a new one
SnapshotIsCopy == TRUE

\* getTrackedPages(): `returned` keeps what the call returned, `open` the
\* pages the context had at the call, `array` is the array in the caller's hands
GetTrackedPages ==
  /\ pageListeners > 0
  /\ snapshot' = [taken |-> TRUE, array |-> pages, returned |-> pages,
                  open |-> Range(contextPages)]
  /\ UNCHANGED <<listener, maxRetries, backoffMs, providerKind, variant, classification, connections,
                 providerCalls, calls, upstreamVars, closeVars, contextVars, runnerVars>>

\* the caller pushes something of its own onto the array it was returned;
\* were the array the runner's own, the runner's list would grow with it
MutateSnapshot ==
  /\ snapshot.taken
  /\ snapshot.array = snapshot.returned
  /\ snapshot' = [snapshot EXCEPT !.array = Append(@, "foreign")]
  /\ pages' = IF SnapshotIsCopy THEN pages ELSE Append(pages, "foreign")
  /\ UNCHANGED <<listener, maxRetries, backoffMs, providerKind, variant, classification, connections,
                 providerCalls, calls, upstreamVars, closeVars, contextVars, pageVars,
                 pageListeners, requestFailedListeners, gotoWrappers, retryVars>>

\* a runner that listens, once or more, to a session whose pages are opened
\* before or after, and whose caller asks for the tracked pages
TrackNext ==
  \/ \E s \in Contexts : Listen(s)
  \/ \E p \in Pages : NewPage(p)
  \/ GetTrackedPages
  \/ MutateSnapshot

InitTrack ==
  \E open \in {<< >>, <<"p1">>} :
    InitWith({1}, {0}, {"rotating"}, Variants, open)

SpecTrack == InitTrack /\ [][TrackNext]_vars

\* ------------------------------------------------------- the handle alone
\* {}: the connection goes to its destination directly
Direct == [via |-> "direct", auth |-> 0]

\* !instance.upstream
NoUpstream(up) == up \in {NullUpstream, UndefinedCredential}

PrepareRouteMutant(up) == Direct

\* prepareRequestFunction: { upstreamProxyUrl } made of the server and, when
\* present, the username and password of the upstream
PrepareRoute(up) ==
  IF NoUpstream(up) THEN Direct ELSE [via |-> up.server, auth |-> up.username]

\* the local proxy prepares a connection
PrepareRequest(d) ==
  /\ server[d].listening
  /\ Len(connections[d]) < MaxConnections
  /\ connections' = [connections EXCEPT ![d] =
       Append(@, [route |-> PrepareRoute(upstream[d]), after |-> lastSet[d]])]
  /\ UNCHANGED <<listener, maxRetries, backoffMs, providerKind, variant, classification, snapshot,
                 providerCalls, calls, upstreamVars, closeVars, contextVars, runnerVars>>

\* what the caller may pass to setUpstream itself
UpstreamChoices == {NullUpstream, Credential(9)}

\* the caller invokes dyn.setUpstream(proxy) itself
SetUpstreamCall(d, proxy) ==
  /\ setUpstream(d, proxy)
  /\ UNCHANGED <<configVars, providerCalls, calls, closeVars, contextVars, runnerVars>>

\* the goto calls that run at the same time
RaceCalls == {1, 2}

\* goto calls that retry through one handle at the same time, while the
\* caller sets the upstream too and the proxy prepares connections
ProxyNext ==
  \/ \E c \in RaceCalls, p \in Pages : GotoStart(c, p, RunnerProxy)
  \/ \E c \in RaceCalls : NavSucceeds(c)
  \/ \E c \in RaceCalls : NavFails(c, ErrTimeout)
  \/ \E c \in RaceCalls : AcquireSucceeds(c)
  \/ \E c \in RaceCalls : ProxyLoadedReturns(c)
  \/ \E c \in RaceCalls : SetUpstreamReturns(c, 0)
  \/ \E c \in RaceCalls : OnRetryReturns(c)
  \/ \E proxy \in UpstreamChoices : SetUpstreamCall(RunnerProxy, proxy)
  \/ PrepareRequest(RunnerProxy)

InitProxy == InitWith({1}, {0}, {"rotating"}, {"notification"}, <<"p1">>)

\* options.dynamicProxy left out of the options, or no options at all
NoDynamicProxyOption == "none"

\* new AluviaError("No dynamic proxy supplied to agentConnect", NoDynamicProxy)
NoDynamicProxy == Thrown("Error", TRUE, <<"D">>, <<"ND">>, <<"A">>, EmptyText)

\* agentConnect(page, options) throws before it builds a runner
ConnectThrows(c, p) ==
  /\ calls[c].pc = "idle"
  /\ \A b \in Calls : b < c => calls[b].pc # "idle"
  /\ calls' = [calls EXCEPT ![c] = [@ EXCEPT !.pc = "threw", !.page = p,
                 !.result = [state |-> "threw", page |-> "none", err |-> NoDynamicProxy]]]
  /\ UNCHANGED <<configVars, providerCalls, upstreamVars, closeVars, contextVars, runnerVars>>

\* agentConnect(page, { dynamicProxy: d, ... }).goto(url), up to the first
\* navigation of the call
agentConnect(c, p, d) ==
  IF d = NoDynamicProxyOption
  THEN ConnectThrows(c, p)
  ELSE GotoStart(c, p, d)

ConnectNext ==
  \/ \E c \in RaceCalls, p \in Pages, d \in Proxies \cup {NoDynamicProxyOption} :
       agentConnect(c, p, d)
  \/ \E c \in RaceCalls : NavSucceeds(c)
  \/ \E c \in RaceCalls, f \in Failures : NavFails(c, f)

InitConnect == InitWith({0}, {0}, {"rotating"}, {"notification"}, <<"p1", "p2">>)

SpecConnect == InitConnect /\ [][ConnectNext]_vars

\* goto calls of runners of one session, one after the other or at the same
\* time, with nobody else touching their handles
CallsNext ==
  \/ \E c \in RaceCalls, p \in Pages, d \in Proxies : GotoStart(c, p, d)
  \/ \E c \in RaceCalls : NavSucceeds(c)
  \/ \E c \in RaceCalls : NavFails(c, ErrTimeout)
  \/ \E c \in RaceCalls : AcquireSucceeds(c)
  \/ \E c \in RaceCalls : ProxyLoadedReturns(c)
  \/ \E c \in RaceCalls, j \in Jitters : SetUpstreamReturns(c, j)
  \/ \E c \in RaceCalls : BackoffElapses(c)
  \/ \E c \in RaceCalls : OnRetryReturns(c)

InitCalls == InitWith({1}, BackoffChoices, {"rotating"}, {"notification"}, <<"p1", "p2">>)

SpecCalls == InitCalls /\ [][CallsNext]_vars

SpecProxy == InitProxy /\ [][ProxyNext]_vars

\* ------------------------------------------------------- classifier alone
\* throw ""
StrEmpty == Thrown("string", FALSE, EmptyText, EmptyText, EmptyText, EmptyText)

\* the patterns a retryOn list is made of
PatternChoices ==
  {StringPattern(<<"T">>), StringPattern(<<"N">>), StringPattern(EmptyText),
   RegExpPattern(<<"T">>), RegExpPattern(<<"E">>)}

RECURSIVE PatternLists(_)
PatternLists(n) ==
  IF n = 0 THEN {<< >>}
  ELSE PatternLists(n - 1) \cup
       {Append(l, q) : l \in {m \in PatternLists(n - 1) : Len(m) = n - 1}, q \in PatternChoices}

\* what the classifier of the explicit path is asked about: anything thrown
GotoInputs == Failures \cup {StrEmpty}

\* what the classifier of the event-driven path is asked about: the descriptor
\* of a failed request, or what a re-navigation threw
EventInputs ==
  Failures \cup {StrEmpty, FailureDescriptor(EmptyText), FailureDescriptor(<<"T">>),
                 FailureDescriptor(<<"N">>)}

\* isRetryable(failure) of compileRetryable(patterns), of either path
Classify ==
  /\ ~classification.asked
  /\ classification' = [classification EXCEPT !.asked = TRUE,
       !.result = IF classification.path = "goto"
                  THEN GotoIsRetryable(classification.patterns, classification.failure)
                  ELSE EventIsRetryable(classification.patterns, classification.failure)]
  /\ UNCHANGED <<listener, maxRetries, backoffMs, providerKind, variant, connections, snapshot,
                 providerCalls, calls, upstreamVars, closeVars, contextVars, runnerVars>>

ClassifyNext == Classify

InitClassify ==
  /\ InitRunner({0}, {0}, {"rotating"}, {"notification"}, << >>)
  /\ listener = NoListener("part_004")
  /\ \E path \in {"goto", "event"} :
       \E l \in PatternLists(MaxPatterns) :
         \E f \in (IF path = "goto" THEN GotoInputs ELSE EventInputs) :
           classification = [path |-> path, patterns |-> l, failure |-> f,
                             asked |-> FALSE, result |-> FALSE]

SpecClassify == InitClassify /\ [][ClassifyNext]_vars

\* ------------------------------------------------------- agentConnectListener
\* options.errorOn: plain strings, tested with errorText.includes(pattern)
ErrorOnChoices ==
  { << <<"T">> >>, << <<"T">>, <<"N">> >>, << <<"T">>, <<"T">> >>, << >> }

\* request.failure()?.errorText || ""
FailureTexts == { <<"T">>, <<"N">>, <<"T", "N">>, EmptyText }

\* errorOn.some(pattern => errorText.includes(pattern))
ErrorOnMatches(errorOn, errorText) ==
  \E i \in 1..Len(errorOn) : Includes(errorText, errorOn[i])

\* emitter.emit("aluviaError", request): the listener receives the request
RequestEmission(req) ==
  [type |-> "aluviaError", shape |-> "request", state |-> "none", reason |-> "none",
   request |-> req.id]

\* emitStatus({ state, reason, details }): emitter.emit("aluviastatus", payload)
StatusEmission(state, reason) ==
  [type |-> "aluviastatus", shape |-> "status", state |-> state, reason |-> reason,
   request |-> 0]

\* agentConnectListener(context, { errorOn }): the emitter of the context, made
\* and attached to the pages of the context on the first call only
agentConnectListener(s, errorOn) ==
  /\ ~contextClosed[s]
  /\ listener' =
       IF listener.emitters[s].created THEN listener
       ELSE attachPage([listener EXCEPT !.emitters[s] = [created |-> TRUE, errorOn |-> errorOn]],
                       {p \in Range(contextPages) : PageContext(p) = s})
  /\ UNCHANGED <<runnerConfigVars, providerCalls, calls, upstreamVars, closeVars, contextVars,
                 runnerVars>>

\* what the requestfailed listener of the page emits for a request
OnRequestFailed(l, p, req) ==
  IF l.source = "part_004" /\ ErrorOnMatches(l.emitters[PageContext(p)].errorOn, req.errorText)
  THEN << RequestEmission(req) >>
  ELSE << >>

\* a page the emitter is attached to reports a failed request
ListenerRequestFailed(p, errorText) ==
  /\ p \in listener.attached
  /\ Len(listener.received) < MaxNotifications
  /\ LET req == [id |-> Len(listener.received) + 1, page |-> p, errorText |-> errorText] IN
       listener' = [listener EXCEPT !.received = Append(@, req),
                                    !.emitted = @ \o OnRequestFailed(listener, p, req)]
  /\ UNCHANGED <<runnerConfigVars, providerCalls, calls, upstreamVars, closeVars, contextVars,
                 runnerVars>>

\* what the domcontentloaded listener finds in the page
Contents == {"content-pattern", "empty-body", "loader-only", "fine"}

\* the page fires domcontentloaded: part_005 reports a failure pattern, an
\* empty body or a lone loader; part_004 does not listen
DomContentLoaded(p, content) ==
  /\ p \in listener.attached
  /\ Len(listener.emitted) < MaxNotifications
  /\ listener' =
       IF listener.source = "part_005" /\ content # "fine"
       THEN [listener EXCEPT !.emitted = Append(@, StatusEmission("error", content))]
       ELSE listener
  /\ UNCHANGED <<runnerConfigVars, providerCalls, calls, upstreamVars, closeVars, contextVars,
                 runnerVars>>

ListenerNext ==
  \/ \E s \in Contexts, errorOn \in ErrorOnChoices : agentConnectListener(s, errorOn)
  \/ \E p \in Pages : NewPage(p)
  \/ \E p \in Pages, t \in FailureTexts : ListenerRequestFailed(p, t)
  \/ \E p \in Pages, c \in Contents : DomContentLoaded(p, c)

InitListener ==
  /\ InitRunner({0}, {0}, {"rotating"}, {"notification"}, <<"p1">>)
  /\ classification = NoClassification
  /\ listener \in {NoListener(src) : src \in ListenerSources}

SpecListener == InitListener /\ [][ListenerNext]_vars

\* ------------------------------------------------------------------ claims
\* A failure is retryable, in the words of the specification, when a retry
\* pattern matches its message, its code, its name or, for a thrown string,
\* its text.
MatchesRetryPattern(err) ==
  \E i \in 1..Len(RetryOn) :
    \/ Includes(err.message, RetryOn[i].text)
    \/ Includes(err.code, RetryOn[i].text)
    \/ Includes(err.name, RetryOn[i].text)
    \/ Includes(err.text, RetryOn[i].text)

\* the outcomes of the navigation attempts of a call, in order
Outcomes(log) == SelectSeq(log, LAMBDA e : e.ev \in {"navOk", "navFailed"})

RetryableFailure(e) == e.ev = "navFailed" /\ MatchesRetryPattern(e.err)
FatalFailure(e) == e.ev = "navFailed" /\ ~MatchesRetryPattern(e.err)

\* attempts 1..n failed with retryable errors and attempt n+1 succeeded
RetryableThenOk(o, n) ==
  /\ Len(o) = n + 1
  /\ \A i \in 1..n : RetryableFailure(o[i])
  /\ o[n + 1].ev = "navOk"

\* C1: with maxRetries = N, when the navigation attempts 1..N each fail with a
\* retryable error and attempt N+1 succeeds, exactly N+1 navigation attempts
\* have been made and the call resolves.
C1_ExactlyNPlusOneAttempts ==
  \A c \in Calls :
    RetryableThenOk(Outcomes(calls[c].log), maxRetries) =>
      /\ calls[c].result.state = "resolved"
      /\ Count(calls[c].log, "nav") = maxRetries + 1

C1_Witness ==
  \E c \in Calls :
    /\ maxRetries = MaxRetriesBound
    /\ RetryableThenOk(Outcomes(calls[c].log), maxRetries)
    /\ calls[c].result.state = "resolved"

\* C2: with maxRetries = 0, a call whose first navigation fails with a
\* retryable error is rejected after exactly one navigation attempt: no
\* credential is asked for and no retry navigation is started.
C2_NoRetryWithZeroBudget ==
  \A c \in Calls :
    LET o == Outcomes(calls[c].log) IN
      (maxRetries = 0 /\ Len(o) >= 1 /\ RetryableFailure(o[1])) =>
        /\ calls[c].result.state = "rejected"
        /\ Count(calls[c].log, "nav") = 1
        /\ Count(calls[c].log, "get") = 0

C2_Witness ==
  \E c \in Calls :
    /\ maxRetries = 0
    /\ Len(Outcomes(calls[c].log)) = 1
    /\ RetryableFailure(Outcomes(calls[c].log)[1])
    /\ calls[c].result.state = "rejected"

\* C3: when the first navigation attempt fails with an error that matches no
\* retry pattern, the call is rejected with that very error after exactly one
\* navigation attempt, with no credential acquisition, no backoff wait, no
\* onRetry or onProxyLoaded invocation and no setUpstream.
C3_FatalFirstAttempt ==
  \A c \in Calls :
    LET o == Outcomes(calls[c].log) IN
      (Len(o) >= 1 /\ FatalFailure(o[1])) =>
        /\ calls[c].result.state = "rejected"
        /\ calls[c].result.err = o[1].err
        /\ Count(calls[c].log, "nav") = 1
        /\ Count(calls[c].log, "get") = 0
        /\ Count(calls[c].log, "backoff") = 0
        /\ Count(calls[c].log, "onRetry") = 0
        /\ Count(calls[c].log, "onProxyLoaded") = 0
        /\ Count(calls[c].log, "setUpstream") = 0
        /\ upstream[calls[c].proxy] = calls[c].log[1].upstream

C3_Witness ==
  \E c \in Calls :
    /\ maxRetries > 0
    /\ Len(Outcomes(calls[c].log)) = 1
    /\ FatalFailure(Outcomes(calls[c].log)[1])
    /\ calls[c].result.state = "rejected"
    /\ calls[c].result.err.nav = 1

\* C4: when a retry navigation attempt (attempt k >= 2 of the call) fails with
\* a failure that matches no retry pattern, that failure is the last thing the
\* call meets and the call is rejected with that very value, Error instance or not.
C4_FatalRetryPropagatesAsIs ==
  \A c \in Calls :
    LET o == Outcomes(calls[c].log) IN
      \A k \in 2..Len(o) :
        FatalFailure(o[k]) =>
          /\ k = Len(o)
          /\ calls[c].log[Len(calls[c].log)] = o[k]
          /\ calls[c].result.state = "rejected"
          /\ calls[c].result.err = o[k].err

\* C5: when the first attempt and all maxRetries retry attempts fail with
\* retryable failures, the call is rejected with the value thrown by the last
\* navigation attempt, attempt maxRetries + 1.
C5_ExhaustionPropagatesLastFailure ==
  \A c \in Calls :
    LET o == Outcomes(calls[c].log) IN
      (Len(o) = maxRetries + 1 /\ \A i \in 1..Len(o) : RetryableFailure(o[i])) =>
        /\ calls[c].result.state = "rejected"
        /\ calls[c].result.err = o[maxRetries + 1].err

RetriesPerformed(call) ==
  /\ call.pc \in {"nav", "resolved", "rejected"}
  /\ call.log[Len(call.log)].ev \in {"nav", "navOk", "navFailed"}

HookCloses(d) == Len(SelectSeq(closeLog[d], LAMBDA w : w = "hook"))

\* an orchestrator has been attached to session s with handle d: by a goto
\* call on a page of s, or by the runner's listen
Attached(d, s) ==
  \/ \E c \in Calls : calls[c].pc # "idle" /\ calls[c].proxy = d /\ PageContext(calls[c].page) = s
  \/ pageListeners > 0 /\ d = RunnerProxy

\* d is the only handle the orchestrators attached to s were given
OnlyHandle(d, s) ==
  /\ \A c \in Calls : (calls[c].pc # "idle" /\ PageContext(calls[c].page) = s) => calls[c].proxy = d
  /\ pageListeners > 0 => d = RunnerProxy

\* C9: once an orchestrator has been attached to a session with a proxy handle
\* (by any number of goto calls and/or by listen, all with that handle), the
\* close of that session makes exactly one invocation of the handle's close(),
\* whether or not the caller also closes the handle itself.
C9_SessionCloseClosesHandleOnce ==
  \A s \in Contexts, d \in Proxies :
    (contextClosed[s] /\ Attached(d, s) /\ OnlyHandle(d, s)) => HookCloses(d) = 1

\* the sequences of the requestfailed handler in progress for page p
InProgress(p) == {i \in 1..Len(acts) : acts[i].page = p /\ acts[i].pc # "done"}

\* the sequences the n-th notification started
StartedBy(n) == {i \in 1..Len(acts) : acts[i].trigger = n}

\* the last notification is a retryable failure of a navigation-class request
RetryableNavigationNotification ==
  /\ notified > 0
  /\ lastNotification.resourceType \in NavigationTypes
  /\ MatchesRetryPattern(FailureDescriptor(lastNotification.errorText))

\* the calls of get() the sequences of the handler account for
GetsOfSequences ==
  LET RECURSIVE Sum(_)
      Sum(n) == IF n = 0 THEN 0 ELSE Sum(n - 1) + Count(acts[n].log, "get")
  IN Sum(Len(acts))

\* C7: on the event-driven path at most one retry sequence is in progress per
\* page; a notification starts at most one sequence however many listeners
\* the page has; a notification that arrives while a sequence is in flight
\* for its page starts none, and every call of get() belongs to a sequence
\* that was started, so an ignored notification acquires nothing and nothing
\* is kept for later
C7_SingleFlightPerPage ==
  /\ \A p \in Pages : Cardinality(InProgress(p)) <= 1
  /\ \A n \in 1..notified : Cardinality(StartedBy(n)) <= 1
  /\ (notified > 0 /\ lastNotification.inFlight) => StartedBy(notified) = {}
  /\ providerCalls = GetsOfSequences
  /\ \A p \in Pages : (p \in runningRetries) <=> (InProgress(p) # {})

\* two retryable navigation-class notifications, the second one while the
\* sequence of the first was in flight on a page with two listeners: one sequence
C7_Witness ==
  /\ notified = 2
  /\ RetryableNavigationNotification
  /\ lastNotification.inFlight
  /\ lastNotification.url # ""
  /\ requestFailedListeners[lastNotification.page] = 2
  /\ Len(acts) = 1
  /\ acts[1].trigger = 1
  /\ acts[1].pc = "done"
  /\ Count(acts[1].log, "nav") = 1

\* C8: a requestfailed notification for a resource that is not of a
\* navigation class never triggers a retry: the sequence of the handler, if
\* one is started by such a request at all, issues no reload or navigation,
\* acquires no credential and leaves the upstream alone
C8_NonNavigationNeverRetries ==
  \A i \in 1..Len(acts) :
    acts[i].request.resourceType \notin NavigationTypes =>
      /\ Count(acts[i].log, "nav") = 0
      /\ Count(acts[i].log, "get") = 0
      /\ Count(acts[i].log, "setUpstream") = 0

\* nothing of the retry loop follows a failed acquisition in `log`
NothingAfterFailedAcquisition(log) ==
  \A k \in 1..Len(log) :
    log[k].ev = "getFailed" =>
      \A m \in (k + 1)..Len(log) : log[m].ev \notin {"nav", "get", "setUpstream"}

\* C11: in the event-driven retry loops an acquisition that throws or yields
\* no credential aborts the sequence: no re-navigation, acquisition or
\* setUpstream follows it, so the upstream keeps the value it had
C11_FailedAcquisitionAbortsLoop ==
  \A i \in 1..Len(acts) : NothingAfterFailedAcquisition(acts[i].log)

\* the explicit path's share of C11: nothing follows the failed acquisition
\* and the call rejects with the proxy-acquisition error
C11_ExplicitPathAborts ==
  \A c \in Calls :
    Count(calls[c].log, "getFailed") > 0 =>
      /\ NothingAfterFailedAcquisition(calls[c].log)
      /\ calls[c].log[Len(calls[c].log)].ev = "getFailed"
      /\ calls[c].pc = "rejected"
      /\ calls[c].result.err = ProxyFetchFailed

\* C12: without a proxyProvider and without an access token a goto call makes
\* no navigation attempt on the page and fails with the missing-credentials
\* error
C12_MissingKeyFailsBeforeNavigation ==
  \A c \in Calls :
    (NoProviderNoKey /\ calls[c].pc # "idle") =>
      /\ Count(calls[c].log, "nav") = 0
      /\ calls[c].pc \in {"resolved", "rejected"} =>
           (calls[c].pc = "rejected" /\ calls[c].result.err = MissingApiKey)

\* in the finished `log`, the credential of every onProxyLoaded call that
\* threw is applied with setUpstream and, unless onRetry threw as well, the
\* retry navigation of the attempt takes place
ObserverFailureTolerated(log) ==
  \A k \in 2..Len(log) :
    log[k].ev = "onProxyLoadedThrew" =>
      /\ \E m \in 1..Len(log) :
           /\ log[m].ev = "setUpstream"
           /\ \E l \in 1..(k - 1) : log[l].ev = "onProxyLoaded" /\ log[l].cred = log[m].cred
      /\ \/ \E m \in (k + 1)..Len(log) : log[m].ev = "nav"
         \/ \E m \in (k + 1)..Len(log) : log[m].ev = "onRetryThrew"

\* C13: on the explicit path a throwing onProxyLoaded observer does not abort
\* the retry sequence: once the call has settled, the credential was applied and
\* the retry navigation of the attempt took place
C13_ObserverFailureDoesNotAbort ==
  \A c \in Calls :
    calls[c].pc \in {"resolved", "rejected"} => ObserverFailureTolerated(calls[c].log)

\* the failure is absent or has no text: undefined or null, an empty string,
\* a request failure without errorText
EmptyFailure(f) ==
  /\ f.kind # "Error"
  /\ f.message = EmptyText /\ f.code = EmptyText /\ f.name = EmptyText /\ f.text = EmptyText

\* the message of a failure: its message or errorText, or the string thrown
FailureMessage(f) == IF f.hasMessage THEN f.message ELSE f.text

\* at least one pattern matches at least one of message, code and name
SomePatternMatches(patterns, f) ==
  \E i \in 1..Len(patterns) : \E t \in {FailureMessage(f), f.code, f.name} :
    Includes(t, patterns[i].text)

\* C14: isRetryable(failure) is false for an absent or empty failure whatever
\* the pattern list, and for any other failure true exactly when a pattern
\* matches its message, code or name; so for the classifiers of both paths
C14_ClassifierMatchesAnyField ==
  classification.asked =>
    IF EmptyFailure(classification.failure)
    THEN ~classification.result
    ELSE classification.result
           <=> SomePatternMatches(classification.patterns, classification.failure)

\* C15: currentUpstream() of a handle is the argument of the setUpstream call
\* executed last on it, whoever made it, and null if none was made or the
\* last one passed null
C15_LastSetUpstreamWins ==
  \A d \in Proxies :
    currentUpstream(d) = IF lastSet[d] = NeverSet THEN NullUpstream ELSE lastSet[d]

\* two goto calls are both at their setUpstream, the one that acquired first
\* having called it last
C15_Witness ==
  /\ calls[1].pc = "apply" /\ calls[2].pc = "apply"
  /\ calls[1].proxy = calls[2].proxy
  /\ calls[1].cred # calls[2].cred
  /\ lastSet[calls[1].proxy] = calls[1].cred
  /\ currentUpstream(calls[1].proxy) = calls[1].cred

\* C16: a connection prepared after a setUpstream(c) call, and before any
\* later one, goes through c when c is a credential and directly when c is
\* null or no call was made
C16_ConnectionsUseLatestUpstream ==
  \A d \in Proxies : \A k \in 1..Len(connections[d]) :
    LET c == connections[d][k].after
        route == connections[d][k].route
    IN IF c \in {NeverSet, NullUpstream}
       THEN route.via = "direct"
       ELSE route.via = c.server /\ route.auth = c.username

\* a connection went through the credential of a retry and a later one,
\* prepared after setUpstream(null), went directly
C16_Witness ==
  \E d \in Proxies :
    /\ Len(connections[d]) = 2
    /\ connections[d][1].after \in {calls[c].cred : c \in Calls} \ {NullUpstream}
    /\ connections[d][1].route.via = "proxy"
    /\ connections[d][2].after = NullUpstream
    /\ connections[d][2].route = Direct

\* C17: close() on a handle never raises, whether it is the first close, a
\* second one, one made after the session-close listener closed the handle or
\* one whose server.close rejects; and a handle that was closed stays closed
C17_CloseNeverRaisesAndIsIdempotent ==
  \A d \in Proxies :
    /\ ~server[d].raised
    /\ closeLog[d] # << >> => ~server[d].listening

\* the session-close listener closed the handle and the caller closed it
\* again afterwards, the server rejecting the second close
C17_Witness ==
  \E d \in Proxies :
    /\ Len(closeLog[d]) >= 2
    /\ closeLog[d][1] = "hook"
    /\ closeLog[d][Len(closeLog[d])] = "manual"
    /\ ~server[d].listening

\* C18: no failure of a retry sequence of the event-driven path escapes the
\* requestfailed handler: the promise the handler returns is never rejected
C18_NoFailureEscapesHandler ==
  \A i \in 1..Len(acts) : ~acts[i].escaped

\* C19: the runner tracks exactly the pages its context has had since listen,
\* those open at listen and those opened later; getTrackedPages() returned
\* the pages the context had at the moment of the call, and what the caller
\* does to the returned array leaves the runner's list alone
C19_TrackedPagesSnapshot ==
  /\ pageListeners > 0 => Range(pages) = Range(contextPages)
  /\ snapshot.taken => Range(snapshot.returned) = snapshot.open

\* a page open before listen and one opened after it were both returned, and
\* the caller has pushed onto the returned array
C19_Witness ==
  /\ snapshot.taken
  /\ snapshot.open = {"p1", "p2"}
  /\ snapshot.returned[1] = "p1"
  /\ snapshot.array # snapshot.returned
  /\ Range(pages) = {"p1", "p2"}

\* the last entry of a log that is not empty
LastEvent(log) == log[Len(log)]

\* the sequence is over
Finished(act) == act.pc \in {"settled", "done"}

\* C20: a sequence of the event-driven path whose re-navigations failed with
\* retryable errors k times and then succeeded made exactly k + 1
\* re-navigations, all of its page, with k < maxRetries, and nothing after the
\* success; and it never gave up on a retryable failure before the budget
\* was spent
C20_EventRetriesUntilSuccess ==
  \A i \in 1..Len(acts) :
    LET log == acts[i].log IN
    /\ (Finished(acts[i]) /\ log # << >> /\ LastEvent(log).ev = "navOk") =>
         /\ Count(log, "nav") = Count(log, "navFailed") + 1
         /\ Count(log, "navFailed") < maxRetries
         /\ \A k \in 1..Len(log) : log[k].ev = "nav" => log[k].page = acts[i].page
         /\ \A k \in 1..Len(log) :
              log[k].ev = "navFailed" => MatchesRetryPattern(log[k].err)
         /\ acts[i].outcome = "returned"
    /\ (Finished(acts[i]) /\ log # << >> /\ LastEvent(log).ev = "navFailed"
          /\ MatchesRetryPattern(LastEvent(log).err)) =>
         Count(log, "nav") = maxRetries
    /\ \A k \in 1..Len(log) : log[k].ev = "navOk" => k = Len(log)

\* one retryable failure of the re-navigation, then a success, with a budget of two
C20_Witness ==
  \E i \in 1..Len(acts) :
    /\ acts[i].pc = "done"
    /\ maxRetries = 2
    /\ variant = "wrapping"
    /\ Count(acts[i].log, "navFailed") = 1
    /\ Count(acts[i].log, "nav") = 2
    /\ LastEvent(acts[i].log).ev = "navOk"

\* C21: a requestfailed notification whose failure text matches no retry
\* pattern starts no retry sequence, whatever its resource type: every
\* sequence was started by a request whose text matches, the latest
\* notification, if its text does not match, started none, and when the page
\* was idle at its arrival the in-flight flag is still clear
C21_UnmatchedFailureStartsNothing ==
  /\ \A i \in 1..Len(acts) :
       MatchesRetryPattern(FailureDescriptor(acts[i].request.errorText))
  /\ (notified > 0
        /\ ~MatchesRetryPattern(FailureDescriptor(lastNotification.errorText))) =>
       /\ StartedBy(notified) = {}
       /\ ~lastNotification.inFlight => lastNotification.page \notin runningRetries
  /\ providerCalls = GetsOfSequences

\* a document request failed with a text no pattern matches on an idle page
\* that has a listener: nothing was started
C21_Witness ==
  /\ notified = 1
  /\ lastNotification.resourceType = "document"
  /\ lastNotification.errorText = <<"N">>
  /\ lastNotification.url # ""
  /\ requestFailedListeners[lastNotification.page] > 0
  /\ ~pageClosed[lastNotification.page]
  /\ acts = << >>
  /\ runningRetries = {}

\* C22: the first navigation attempt of every goto call, the first call on a
\* handle or a later one, runs while the handle has no upstream
C22_FirstAttemptIsDirect ==
  \A c \in Calls :
    Count(calls[c].log, "nav") > 0 =>
      Events(calls[c].log, "nav")[1].upstream = NullUpstream

\* the call was made through agentConnect(page), without a dynamicProxy
WithoutOptions(call) == call.pc # "idle" /\ call.proxy = NoDynamicProxyOption

\* C23: agentConnect(page) without options returns a runner, and its goto,
\* when the first navigation succeeds, resolves with the original page and
\* without any retry
C23_NoOptionsResolvesOnFirstSuccess ==
  \A c \in Calls :
    WithoutOptions(calls[c]) =>
      /\ calls[c].result.state # "threw"
      /\ Count(calls[c].log, "nav") >= 1
      /\ (Len(Outcomes(calls[c].log)) > 0 /\ Outcomes(calls[c].log)[1].ev = "navOk") =>
           /\ calls[c].result.state = "resolved"
           /\ calls[c].result.page = calls[c].page
           /\ Count(calls[c].log, "nav") = 1
           /\ Count(calls[c].log, "get") = 0

\* the notifications whose failure text contains a configured pattern
MatchingNotifications ==
  SelectSeq(listener.received,
            LAMBDA r : ErrorOnMatches(listener.emitters[PageContext(r.page)].errorOn,
                                      r.errorText))

\* C24: the events the listener has emitted for failed requests are, in
\* notification order, one error status event { state: "error", request } for
\* each notification whose failure text contains a configured pattern, and
\* none for the others
C24_OneErrorStatusPerMatchingFailure ==
  SelectSeq(listener.emitted, LAMBDA e : e.request # 0) =
    [i \in 1..Len(MatchingNotifications) |->
       [type |-> "aluviastatus", shape |-> "status", state |-> "error", reason |-> "none",
        request |-> MatchingNotifications[i].id]]

\* the re-navigations of the retry loops that are under way on page p: those
\* of wrapped goto calls and those of the sequences of the handler
RetryNavigationsUnderWay(p) ==
  {<<"goto", c>> : c \in {c \in Calls : /\ calls[c].page = p
                                         /\ calls[c].pc \in {"nav", "p_nav"}
                                         /\ calls[c].attempt >= 1}}
  \cup {<<"requestfailed", i>> : i \in {i \in 1..Len(acts) : /\ acts[i].page = p
                                                            /\ acts[i].pc = "nav"}}

\* C25: on a page, the navigation attempts of the retry loops never overlap,
\* whichever loops act on it: at most one re-navigation is under way at a time
C25_RetryAttemptsNeverOverlap ==
  \A p \in Pages : Cardinality(RetryNavigationsUnderWay(p)) <= 1

\* the wrapped goto call has met one failure, a retryable one, and has
\* entered the retry loop of the wrapper for it
WrapperRetries(call) ==
  /\ call.proxy = RunnerProxy
  /\ call.attempt >= 1
  /\ Count(call.log, "navFailed") = 1
  /\ Count(call.log, "onRetry") >= 1

\* the handler has started a retry sequence for the notification, a retryable
\* one for a document
HandlerRetries(act) ==
  /\ NavigationClass(act.request.resourceType)
  /\ MatchesRetryPattern(FailureDescriptor(act.request.errorText))
  /\ act.attempt >= 1

\* C28: one failure of a page.goto on a tracked page, also delivered as one
\* retryable document-class requestfailed notification, starts one retry loop
\* only: never one of the wrapped goto and one of the notification handler
C28_OneRetryLoopPerFailure ==
  \A c \in Calls : \A i \in 1..Len(acts) :
    (notified = 1 /\ acts[i].page = calls[c].page) =>
      ~(WrapperRetries(calls[c]) /\ HandlerRetries(acts[i]))

\* C26: once the sequences the handler started for a page have ended, however
\* they ended, the in-flight flag of the page is clear, and a retryable
\* navigation-class notification that arrives for the page then starts a new
\* sequence
C26_FlagClearedWhenSequenceEnds ==
  /\ \A p \in Pages : InProgress(p) = {} => p \notin runningRetries
  /\ (/\ RetryableNavigationNotification
      /\ ~lastNotification.inFlight
      /\ \E i \in 1..Len(acts) : /\ acts[i].page = lastNotification.page
                                  /\ acts[i].pc = "done"
                                  /\ acts[i].trigger < notified
      /\ ~pageClosed[lastNotification.page]) =>
       Cardinality(StartedBy(notified)) = 1

\* a sequence ended by throwing, and the next retryable notification of the
\* page started a second one, now in flight
C26_Witness ==
  /\ notified = 2
  /\ Len(acts) = 2
  /\ acts[1].pc = "done"
  /\ acts[1].outcome = "threw"
  /\ acts[2].page = acts[1].page
  /\ acts[2].trigger = 2
  /\ acts[2].pc = "nav"
  /\ RetryableNavigationNotification
  /\ ~lastNotification.inFlight

\* C27: a goto call has registered the session-close hook of its session by
\* the time its first navigation is issued, and the goto calls of a session
\* register one hook between them, whatever their runners and pages
C27_OneCloseHookPerSession ==
  /\ \A s \in Contexts :
       /\ Len(closeListeners[s]) <= 1
       /\ (s \in CONTEXT_LISTENER_ATTACHED) <=> (Len(closeListeners[s]) = 1)
  /\ \A c \in Calls :
       Count(calls[c].log, "nav") >= 1 =>
         Len(closeListeners[PageContext(calls[c].page)]) = 1

\* two goto calls of one session, on two pages and through two handles
C27_Witness ==
  /\ Count(calls[1].log, "nav") >= 1
  /\ Count(calls[2].log, "nav") >= 1
  /\ calls[1].page # calls[2].page
  /\ calls[1].proxy # calls[2].proxy
  /\ PageContext(calls[1].page) = PageContext(calls[2].page)
  /\ Len(closeListeners[PageContext(calls[1].page)]) = 1

\* the n-th entry of the log is a re-navigation that a credential acquired and
\* applied for its own attempt precedes, made with reload where the page has it
FreshCredentialBefore(act, n) ==
  LET before == SubSeq(act.log, 1, n) IN
    /\ Count(before, "get") = Count(before, "nav")
    /\ Count(before, "setUpstream") = Count(before, "nav")
    /\ act.log[n].how = (IF HasReload(act.page) THEN "reload" ELSE "goto")

\* C29: every retry attempt of a sequence of the handler, the first and the
\* later ones, acquires a credential and applies it with setUpstream before
\* its re-navigation, which is a reload when the page has one
C29_EveryAttemptAcquiresAndApplies ==
  \A i \in 1..Len(acts) : \A n \in 1..Len(acts[i].log) :
    acts[i].log[n].ev = "nav" => FreshCredentialBefore(acts[i], n)

\* C30: no sequence of the handler starts a reload or a navigation on a page
\* that is closed, a sequence that ends on a closed page raises nothing, and
\* a notification that arrives for a closed page starts no sequence
C30_ClosedPageIsLeftAlone ==
  /\ \A i \in 1..Len(acts) :
       /\ \A n \in 1..Len(acts[i].log) : acts[i].log[n].ev = "nav" => ~acts[i].log[n].closed
       /\ (acts[i].pc = "done" /\ acts[i].closedAtEnd) => ~acts[i].escaped
  /\ (notified > 0 /\ lastNotification.closed) => StartedBy(notified) = {}

\* the first n entries of a log
Upto(log, n) == SubSeq(log, 1, n)

\* C31: in every retry iteration of a goto call the backoff wait comes before
\* the credential acquisition, the acquisition before setUpstream, and
\* setUpstream before the retry navigation
C31_BackoffAcquireApplyNavigate ==
  \A c \in Calls : \A n \in 1..Len(calls[c].log) :
    LET log == calls[c].log
        pre == Upto(log, n)
    IN /\ (log[n].ev = "get" /\ backoffMs > 0) =>
            Count(pre, "backoff") = Count(pre, "get")
       /\ log[n].ev = "setUpstream" => Count(pre, "get") = Count(pre, "setUpstream")
       /\ (log[n].ev = "nav" /\ Count(pre, "nav") > 1) =>
            Count(pre, "setUpstream") = Count(pre, "nav") - 1

\* C32: onRetry runs once before each retry navigation of a goto call, after
\* the backoff wait of the attempt, with the attempt numbers 1, 2, ..., the
\* configured maxRetries and the failure of the navigation attempt just
\* before; never when the first attempt succeeded or failed with a failure
\* that is not retryable
C32_OnRetryBeforeEachRetry ==
  \A c \in Calls :
   /\ calls[c].pc = "backoff" => Count(calls[c].log, "onRetry") = calls[c].attempt - 1
   /\ \A n \in 1..Len(calls[c].log) :
    LET log == calls[c].log
        pre == Upto(log, n)
        k == Count(pre, "onRetry")
    IN /\ log[n].ev = "onRetry" =>
            /\ log[n].attempt = k
            /\ log[n].maxRetries = maxRetries
            /\ k <= maxRetries
            /\ Count(pre, "nav") = k
            /\ Count(pre, "navFailed") = k
            /\ log[n].lastErr = Events(pre, "navFailed")[k].err
            /\ log[n].lastErr.nav = k
            /\ RetryableFailure(Events(pre, "navFailed")[k])
            /\ backoffMs > 0 => (Count(pre, "backoff") = k /\ log[n - 1].ev = "backoff")
       /\ (log[n].ev = "nav" /\ Count(pre, "nav") > 1) =>
            (k = Count(pre, "nav") - 1 /\ log[n - 1].ev = "onRetry")

\* two retries after a backoff wait each: onRetry has run twice, the second
\* time with the failure of the first retry navigation
C32_Witness ==
  \E c \in Calls :
    /\ backoffMs > 0
    /\ Count(calls[c].log, "onRetry") = 2
    /\ Count(calls[c].log, "nav") = 3
    /\ Events(calls[c].log, "onRetry")[2].lastErr = Events(calls[c].log, "navFailed")[2].err
    /\ Events(calls[c].log, "onRetry")[2].lastErr # Events(calls[c].log, "onRetry")[1].lastErr

\* in a log, every call of onProxyLoaded comes before the setUpstream of the
\* credential it is called with
ObserverBeforeApply(log) ==
  \A n \in 1..Len(log) :
    log[n].ev = "onProxyLoaded" =>
      Count(Upto(log, n), "setUpstream") = Count(Upto(log, n), "onProxyLoaded") - 1

\* C33: in every retry loop, of a goto call or of the handler, onProxyLoaded
\* runs with the acquired credential before setUpstream applies it
C33_ObserverRunsBeforeApply ==
  /\ \A c \in Calls : ObserverBeforeApply(calls[c].log)
  /\ \A i \in 1..Len(acts) : ObserverBeforeApply(acts[i].log)

C35_BackoffDelayBounds ==
  \A c \in Calls : \A n \in 1..Len(calls[c].log) :
    LET log == calls[c].log
        pre == Upto(log, n)
        k == Count(pre, "backoff")
    IN /\ log[n].ev = "backoff" =>
            /\ backoffMs > 0
            /\ k = Count(pre, "nav")
            /\ backoffMs * 2^(k - 1) <= log[n].delay
            /\ log[n].delay < backoffMs * 2^(k - 1) + 100
       /\ (log[n].ev = "nav" /\ Count(pre, "nav") > 1) =>
            k = (IF backoffMs > 0 THEN Count(pre, "nav") - 1 ELSE 0)

\* the second retry of a call, after the longest wait the jitter allows
C35_Witness ==
  \E c \in Calls :
    /\ Count(calls[c].log, "backoff") = 2
    /\ Count(calls[c].log, "nav") = 3
    /\ Events(calls[c].log, "backoff")[2].delay = 2 * backoffMs + 99

\* the acquisitions of a call that have handed out a credential
SuccessfulAcquisitions(call) ==
  Count(call.log, "get") - Count(call.log, "getFailed")
    - (IF call.pc = "acquire" THEN 1 ELSE 0)

C37_EveryRetryLoopEnds ==
  /\ (calls[1].pc # "idle") ~> (calls[1].pc \in {"resolved", "rejected"})
  /\ (Len(acts) >= 1) ~> (Len(acts) >= 1 /\ acts[1].pc = "done")

\* a wrapped goto that spent a budget of two retries and was rejected, next to
\* a sequence of the handler that ended by throwing
C37_Witness ==
  /\ maxRetries = 2
  /\ calls[1].pc = "rejected"
  /\ Count(calls[1].log, "nav") = 3
  /\ Len(acts) = 1
  /\ acts[1].pc = "done"
  /\ acts[1].outcome = "threw"

\* the credential of the latest setUpstream in a log
LastApplied(log) == Events(log, "setUpstream")[Count(log, "setUpstream")].cred

\* the goto calls that were made are on different pages
OnePagePerCall ==
  \A a, b \in Calls :
    (a # b /\ calls[a].pc # "idle" /\ calls[b].pc # "idle") => calls[a].page # calls[b].page

\* C38: a retry navigation of a goto call starts while the upstream of its
\* handle is the credential the call acquired and applied in that iteration,
\* also when calls on different pages share the handle and interleave
C38_RetryRunsThroughOwnCredential ==
  OnePagePerCall =>
    \A c \in Calls : \A n \in 1..Len(calls[c].log) :
      LET pre == Upto(calls[c].log, n) IN
        (calls[c].log[n].ev = "nav" /\ Count(pre, "nav") > 1) =>
          /\ Count(pre, "setUpstream") = Count(pre, "nav") - 1
          /\ calls[c].log[n].upstream = LastApplied(pre)

\* how often page p is in the list of tracked pages
TimesTracked(p) == Cardinality({i \in 1..Len(pages) : pages[i] = p})

\* C39: once the runner listens to a session, each page of the session is in
\* the list of tracked pages exactly once and carries exactly one
\* requestfailed handler of the runner, however often listen was called
C39_TrackedOnceHandledOnce ==
  pageListeners > 0 =>
    \A p \in Range(contextPages) :
      /\ TimesTracked(p) = 1
      /\ requestFailedListeners[p] = 1

\* C40: when a session has closed, every handle that a goto call on a page of
\* the session was given is closed, also when the calls were given different
\* handles
C40_EveryHandleOfSessionCloses ==
  \A c \in Calls :
    (calls[c].pc # "idle" /\ contextClosed[PageContext(calls[c].page)]) =>
      /\ closeLog[calls[c].proxy] # << >>
      /\ ~server[calls[c].proxy].listening

====
